---- MODULE Spec2Model ----
(***************************************************************************)
(* Model of the documentation-build scripts:                               *)
(*   scripts/generate-api-simple.py          (single-pass, strict)         *)
(*   scripts/generate-versioned-api-docs.py  (multi-version)               *)
(*   scripts/create-fallback-api.py          (fallback pages)              *)
(* Python strings are sequences of one-character strings.                  *)
(***************************************************************************)
EXTENDS Integers, Sequences, FiniteSets, TLC

\* ------------------------------------------------------------------------
\* Bounds of the model
\* ------------------------------------------------------------------------
MaxNameLen == 6
MaxMembers == 3
MaxFiles == 2
MaxQualityMembers == 100
MaxRuns == 2

\* ------------------------------------------------------------------------
\* Python string primitives
\* ------------------------------------------------------------------------
\* Python None, as a value comparable with strings (no string has this character)
None == <<"None">>

\* s[:n] and s[n:] (0-based slice bounds, n >= 0)
Take(s, n) == SubSeq(s, 1, IF n < Len(s) THEN n ELSE Len(s))
Drop(s, n) == SubSeq(s, n + 1, Len(s))

\* c in s
Contains(s, c) == \E i \in 1..Len(s) : s[i] = c

\* s.find(c) + 1 : 1-based position of the first c, 0 when absent
Find(s, c) ==
    IF Contains(s, c)
    THEN CHOOSE i \in 1..Len(s) : s[i] = c /\ \A j \in 1..(i - 1) : s[j] # c
    ELSE 0

\* s.rfind(c) + 1 : 1-based position of the last c, 0 when absent
RFind(s, c) ==
    IF Contains(s, c)
    THEN CHOOSE i \in 1..Len(s) : s[i] = c /\ \A j \in (i + 1)..Len(s) : s[j] # c
    ELSE 0

\* s.startswith(p)
StartsWith(s, p) == Len(s) >= Len(p) /\ SubSeq(s, 1, Len(p)) = p

\* sub in s, for a non-empty sub
ContainsSub(s, sub) ==
    \E i \in 1..(Len(s) - Len(sub) + 1) : SubSeq(s, i, i + Len(sub) - 1) = sub

\* s.split(c)[0]
SplitFirst(s, c) == IF Contains(s, c) THEN Take(s, Find(s, c) - 1) ELSE s

\* s.split(c)[-1]
SplitLast(s, c) == Drop(s, RFind(s, c))

\* s.rsplit(c, 1)[0]
RSplitHead(s, c) == IF Contains(s, c) THEN Take(s, RFind(s, c) - 1) ELSE s

\* c.join(s.split(c)[:-1])
JoinAllButLast(s, c) == IF Contains(s, c) THEN Take(s, RFind(s, c) - 1) ELSE <<>>

\* s.replace(old, new), old non-empty
RECURSIVE Replace(_, _, _)
Replace(s, old, new) ==
    IF Len(s) < Len(old) THEN s
    ELSE IF StartsWith(s, old)
         THEN new \o Replace(Drop(s, Len(old)), old, new)
         ELSE <<Head(s)>> \o Replace(Tail(s), old, new)

IsSpace(c) == c \in {" ", "\n", "\t"}

\* s.strip()
RECURSIVE LStrip(_)
LStrip(s) == IF s # <<>> /\ IsSpace(Head(s)) THEN LStrip(Tail(s)) ELSE s
RECURSIVE RStrip(_)
RStrip(s) ==
    IF s # <<>> /\ IsSpace(s[Len(s)]) THEN RStrip(SubSeq(s, 1, Len(s) - 1)) ELSE s
Strip(s) == RStrip(LStrip(s))

\* ' '.join(s.split()) and re.sub(r'\s+', ' ', s) for a stripped s
RECURSIVE CollapseSpaces(_)
CollapseSpaces(s) ==
    IF s = <<>> THEN <<>>
    ELSE IF IsSpace(Head(s))
         THEN <<" ">> \o CollapseSpaces(LStrip(s))
         ELSE <<Head(s)>> \o CollapseSpaces(Tail(s))

\* code points of the characters the model uses, in ascending order
\* ("BACKTICK" stands for the one character U+0060)
CodePointOrder ==
    <<"\t", "\n", " ", "#", "&", "(", ")", ",", ".", "1", "2", "3", ":", ";", "<", ">",
      "A", "B", "C", "E", "F", "I", "M", "N", "P", "S", "T", "\\", "BACKTICK",
      "a", "b", "c", "d", "e", "g", "i", "l", "n", "o", "p", "r", "s", "t",
      "u", "v", "x", "y", "{", "}">>
Ord(c) == CHOOSE i \in 1..Len(CodePointOrder) : CodePointOrder[i] = c

\* a < b on strings
RECURSIVE StrLess(_, _)
StrLess(a, b) ==
    IF b = <<>> THEN FALSE
    ELSE IF a = <<>> THEN TRUE
    ELSE IF Head(a) = Head(b) THEN StrLess(Tail(a), Tail(b))
    ELSE Ord(Head(a)) < Ord(Head(b))

\* ------------------------------------------------------------------------
\* Python dict: insertion-ordered sequence of <<key, value>> pairs
\* ------------------------------------------------------------------------
DictHas(d, k) == \E i \in 1..Len(d) : d[i][1] = k
DictIndex(d, k) == CHOOSE i \in 1..Len(d) : d[i][1] = k
DictGet(d, k) == d[DictIndex(d, k)][2]
\* d[k] = v
DictSet(d, k, v) ==
    IF DictHas(d, k) THEN [d EXCEPT ![DictIndex(d, k)] = <<k, v>>]
    ELSE Append(d, <<k, v>>)
DictKeys(d) == [i \in 1..Len(d) |-> d[i][1]]
\* d.setdefault(k, []).append(v)
DictAppend(d, k, v) ==
    IF DictHas(d, k) THEN [d EXCEPT ![DictIndex(d, k)] = <<k, Append(@[2], v)>>]
    ELSE Append(d, <<k, <<v>>>>)

\* ------------------------------------------------------------------------
\* Owning-type prefix of a member
\* ------------------------------------------------------------------------
\* the plain rightmost-dot split, blind to the parameter list
SimpleMethodPrefix_RightmostDot(method_name) ==
    IF Contains(method_name, "#") /\ ~Contains(method_name, "(")
    THEN SplitFirst(method_name, "#")
    ELSE RSplitHead(method_name, ".")

\* generate-api-simple.py, M: branch (method_name is name[2:])
SimpleMethodPrefix(method_name) ==
    IF Contains(method_name, "(")
    THEN LET paren_index == Find(method_name, "(")
             before_paren == Take(method_name, paren_index - 1)
         IN  RSplitHead(before_paren, ".")
    ELSE IF Contains(method_name, "#")
         THEN SplitFirst(method_name, "#")
         ELSE RSplitHead(method_name, ".")

\* generate-versioned-api-docs.py, M: branch (method_name is member_info['name'])
VersionedMethodPrefix(name) ==
    LET method_name == IF Contains(name, "(") THEN SplitFirst(name, "(") ELSE name
    IN  JoinAllButLast(method_name, ".")

\* generate-api-simple.py, P: branch
SimplePropertyPrefix(prop_name) == RSplitHead(prop_name, ".")

\* generate-versioned-api-docs.py, P: and F: branches
VersionedMemberPrefix(name) == JoinAllButLast(name, ".")

\* ------------------------------------------------------------------------
\* Input: one XML documentation file
\*   [exists, wellFormed, assembly, members]; assembly is the text of
\*   assembly/name, None when the element is absent; a member is
\*   [name, summary, remarks, returns, examples]: name is the name attribute
\*   (None when the attribute is absent); summary, remarks, returns are the
\*   text of the child element, NoElement when the child is absent, None when
\*   it is empty; examples are the example children in document order.
\*   Members carry no param or exception children.
\* ------------------------------------------------------------------------
NoElement == <<"NoElement">>

Member(name, summary) ==
    [name |-> name, summary |-> summary, remarks |-> NoElement, returns |-> NoElement,
     examples |-> <<>>]

\* an example child: its own text and the texts of its code children, each
\* on one line
Example(text, code) == [text |-> text, code |-> code]

XmlFile(exists, wellFormed, assembly, members) ==
    [exists |-> exists, wellFormed |-> wellFormed, assembly |-> assembly,
     members |-> members]

\* member.get('name', '')
NameAttr(m) == IF m.name = None THEN <<>> ELSE m.name

\* elem.text if elem is not None else ""
ElemText(e) == IF e = NoElement THEN <<>> ELSE e

TypeTag == <<"T", ":">>
MethodTag == <<"M", ":">>
PropertyTag == <<"P", ":">>
FieldTag == <<"F", ":">>

\* ------------------------------------------------------------------------
\* generate-api-simple.py: clean_text
\* ------------------------------------------------------------------------
Placeholder ==
    <<"N", "o", " ", "d", "e", "s", "c", "r", "i", "p", "t", "i", "o", "n", " ",
      "a", "v", "a", "i", "l", "a", "b", "l", "e">>

clean_text(text) ==
    IF text = None \/ text = <<>> THEN Placeholder
    ELSE CollapseSpaces(Strip(text))

\* ------------------------------------------------------------------------
\* generate-api-simple.py: create_assembly_docs
\* ------------------------------------------------------------------------
TypeLimit == 15
MethodLimit == 15
PropertyLimit == 5
ExampleLimit == 2
ExampleMinLength == 10

RECURSIVE Flatten(_)
Flatten(ss) == IF ss = <<>> THEN <<>> ELSE Head(ss) \o Flatten(Tail(ss))

\* a final else branch that files every remaining member as a property
\* ET.tostring(example, encoding='unicode', method='text')
ExampleContent(e) == e.text \o Flatten(e.code)

LongEnough(content) == Len(content) > ExampleMinLength

\* lines 47-53: the examples kept for a type
SimpleExamples(member) ==
    SelectSeq([i \in 1..Len(member.examples) |->
                  Strip(ExampleContent(member.examples[i]))],
              LongEnough)

SimpleCollectMember_ElseProperty(acc, m, idx) ==
    LET name == NameAttr(m)
        summary == clean_text(ElemText(m.summary))
    IN  IF StartsWith(name, TypeTag)
        THEN [acc EXCEPT !.types =
                 DictSet(@, Drop(name, 2),
                         [summary |-> summary,
                          remarks |-> clean_text(ElemText(m.remarks)),
                          examples |-> SimpleExamples(m)])]
        ELSE IF StartsWith(name, MethodTag)
        THEN [acc EXCEPT !.methods =
                 DictAppend(@, SimpleMethodPrefix(Drop(name, 2)),
                            [name |-> Drop(name, 2), summary |-> summary,
                             parameters |-> <<>>,
                             returns |-> clean_text(ElemText(m.returns)),
                             idx |-> idx])]
        ELSE [acc EXCEPT !.properties =
                 DictAppend(@, SimplePropertyPrefix(Drop(name, 2)),
                            [name |-> Drop(name, 2), summary |-> summary,
                             idx |-> idx])]

\* one iteration of "for member in root.findall('.//member')"; idx is the
\* position of the member in the file and identifies the entry built for it
SimpleCollectMember(acc, m, idx) ==
    LET name == NameAttr(m)
        summary == clean_text(ElemText(m.summary))
    IN  IF StartsWith(name, TypeTag)
        THEN [acc EXCEPT !.types =
                 DictSet(@, Drop(name, 2),
                         [summary |-> summary,
                          remarks |-> clean_text(ElemText(m.remarks)),
                          examples |-> SimpleExamples(m)])]
        ELSE IF StartsWith(name, MethodTag)
        THEN [acc EXCEPT !.methods =
                 DictAppend(@, SimpleMethodPrefix(Drop(name, 2)),
                            [name |-> Drop(name, 2), summary |-> summary,
                             parameters |-> <<>>,
                             returns |-> clean_text(ElemText(m.returns)),
                             idx |-> idx])]
        ELSE IF StartsWith(name, PropertyTag)
        THEN [acc EXCEPT !.properties =
                 DictAppend(@, SimplePropertyPrefix(Drop(name, 2)),
                            [name |-> Drop(name, 2), summary |-> summary,
                             idx |-> idx])]
        ELSE acc

RECURSIVE SimpleCollect(_, _, _)
SimpleCollect(members, i, acc) ==
    IF i > Len(members) THEN acc
    ELSE SimpleCollect(members, i + 1, SimpleCollectMember(acc, members[i], i))

\* one line of Markdown: what it is and the text it carries
Line(kind, text) == [kind |-> kind, text |-> text, aux |-> <<>>, n |-> 0]
CountLine(kind, n) == [kind |-> kind, text |-> <<>>, aux |-> <<>>, n |-> n]
AuxLine(kind, text, aux) == [kind |-> kind, text |-> text, aux |-> aux, n |-> 0]

\* lines 122-143: the heading of a method
SimpleMethodDisplay(full_name) ==
    IF Contains(full_name, "(")
    THEN LET paren_index == Find(full_name, "(")
             before_paren == Take(full_name, paren_index - 1)
             after_paren == Drop(full_name, paren_index - 1)
             method_name_part == SplitLast(before_paren, ".")
             clean_method_name ==
                 Replace(Replace(method_name_part,
                                 <<"BACKTICK", "BACKTICK", "1">>, <<"<", "T", ">">>),
                         <<"BACKTICK", "BACKTICK", "2">>, <<"<", "T", ",", "U", ">">>)
             braces == Replace(Replace(clean_method_name \o after_paren,
                                       <<"{">>, <<"\\", "{">>),
                               <<"}">>, <<"\\", "}">>)
         IN  Replace(Replace(braces, <<"<">>, <<"\\", "<">>), <<">">>, <<"\\", ">">>)
    ELSE SplitLast(full_name, ".")

SimpleRenderMethod(method) ==
    <<Line("h4", SimpleMethodDisplay(method.name)), Line("p", method.summary)>>
    \o (IF method.parameters # <<>> THEN <<Line("params", <<>>)>> ELSE <<>>)
    \o (IF method.returns # <<>> THEN <<Line("returns", method.returns)>> ELSE <<>>)

SimpleRenderProperty(prop) ==
    <<Line("h4", SplitLast(prop.name, ".")), Line("p", prop.summary)>>

\* lines 170-175: one example, [n] its number, [aux] the language of its fence
SimpleRenderExample(example, i) ==
    LET clean_example ==
            Replace(Replace(example, <<"&", "l", "t", ";">>, <<"<">>),
                    <<"&", "g", "t", ";">>, <<">">>)
        fenced ==
            \/ ContainsSub(clean_example,
                           <<"p", "u", "b", "l", "i", "c", " ", "c", "l", "a", "s", "s">>)
            \/ ContainsSub(clean_example, <<"[", "T", "a", "s", "k">>)
    IN  [kind |-> "example", text |-> clean_example,
         aux |-> IF fenced THEN <<"c", "s", "h", "a", "r", "p">> ELSE <<>>,
         n |-> i]

\* lines 166-175: the Examples subsection
SimpleRenderExamples(examples) ==
    <<Line("h3", <<"E">>)>>
    \o [i \in 1..Len(Take(examples, ExampleLimit)) |->
          SimpleRenderExample(examples[i], i)]

\* lines 111-177: the section of one type
SimpleRenderType(type_name, type_info, methods, properties) ==
    <<Line("h2", type_name), Line("p", type_info.summary)>>
    \o (IF type_info.remarks # <<>>
        THEN <<Line("remarks", type_info.remarks)>> ELSE <<>>)
    \o (IF DictHas(methods, type_name)
        THEN <<Line("h3", <<"M">>)>>
             \o Flatten([i \in 1..Len(Take(DictGet(methods, type_name), MethodLimit))
                           |-> SimpleRenderMethod(DictGet(methods, type_name)[i])])
        ELSE <<>>)
    \o (IF DictHas(properties, type_name)
        THEN <<Line("h3", <<"P">>)>>
             \o Flatten([i \in 1..Len(Take(DictGet(properties, type_name), PropertyLimit))
                           |-> SimpleRenderProperty(DictGet(properties, type_name)[i])])
        ELSE <<>>)
    \o (IF type_info.examples # <<>>
        THEN SimpleRenderExamples(type_info.examples) ELSE <<>>)
    \o <<Line("hr", <<>>)>>

\* every type gets a section
SimpleRender_Uncapped(assembly_name, acc) ==
    <<Line("h1", assembly_name), Line("intro", <<>>),
      CountLine("overview", Len(acc.types))>>
    \o Flatten([i \in 1..Len(acc.types) |->
                  SimpleRenderType(acc.types[i][1], acc.types[i][2],
                                   acc.methods, acc.properties)])

\* lines 104-177: the README.md of one assembly
SimpleRender(assembly_name, acc) ==
    <<Line("h1", assembly_name), Line("intro", <<>>),
      CountLine("overview", Len(acc.types))>>
    \o Flatten([i \in 1..Len(Take(acc.types, TypeLimit)) |->
                  SimpleRenderType(acc.types[i][1], acc.types[i][2],
                                   acc.methods, acc.properties)])

EmptyAggregate == [types |-> <<>>, methods |-> <<>>, properties |-> <<>>]

\* the whole function: [ok] is its return value, [opened] whether README.md
\* was opened for writing, [readme] what was written to it
create_assembly_docs(xml_file) ==
    IF ~xml_file.wellFormed \/ xml_file.assembly = None
    THEN [ok |-> FALSE, opened |-> FALSE, assembly |-> None,
          agg |-> EmptyAggregate, readme |-> <<>>]
    ELSE LET acc == SimpleCollect(xml_file.members, 1, EmptyAggregate)
         IN  [ok |-> TRUE, opened |-> TRUE, assembly |-> xml_file.assembly,
              agg |-> acc, readme |-> SimpleRender(xml_file.assembly, acc)]

\* ------------------------------------------------------------------------
\* generate-versioned-api-docs.py: clean_xml_text
\* ------------------------------------------------------------------------
\* re.sub(open + '([^"]+)' + close, r'`\1`', s); close starts with the quote
RECURSIVE SubTag(_, _, _)
SubTag(s, open, close) ==
    IF s = <<>> THEN <<>>
    ELSE LET rest == Drop(s, Len(open))
             q == Find(rest, "\"")
         IN  IF StartsWith(s, open) /\ q > 1 /\ StartsWith(Drop(rest, q - 1), close)
             THEN <<"BACKTICK">> \o Take(rest, q - 1) \o <<"BACKTICK">>
                  \o SubTag(Drop(rest, q - 1 + Len(close)), open, close)
             ELSE <<Head(s)>> \o SubTag(Tail(s), open, close)

clean_xml_text(text) ==
    IF text = None \/ text = <<>> THEN <<>>
    ELSE LET Lt == <<"&", "l", "t", ";">>
             Gt == <<"&", "g", "t", ";">>
             See == Lt \o <<"s", "e", "e", " ", "c", "r", "e", "f", "=", "\"">>
             ParamRef == Lt \o <<"p", "a", "r", "a", "m", "r", "e", "f", " ",
                                 "n", "a", "m", "e", "=", "\"">>
             CrefClose == <<"\"", "/">> \o Gt
             t1 == CollapseSpaces(Strip(text))
             t2 == Replace(Replace(t1, <<"<">>, Lt), <<">">>, Gt)
             t3 == Replace(Replace(t2, Lt \o <<"c">> \o Gt, <<"BACKTICK">>),
                           Lt \o <<"/", "c">> \o Gt, <<"BACKTICK">>)
             t4 == SubTag(t3, See \o TypeTag, CrefClose)
             t5 == SubTag(t4, See \o MethodTag, CrefClose)
             t6 == SubTag(t5, See \o PropertyTag, CrefClose)
         IN  SubTag(t6, ParamRef, CrefClose)

\* ------------------------------------------------------------------------
\* generate-versioned-api-docs.py: process_member, process_xml_file
\* ------------------------------------------------------------------------
\* ET.tostring(example_elem, encoding='unicode'): the text of a code child
\* as serialised
XmlEscape(text) ==
    Replace(Replace(Replace(text, <<"&">>, <<"&", "a", "m", "p", ";">>),
                    <<"<">>, <<"&", "l", "t", ";">>),
            <<">">>, <<"&", "g", "t", ";">>)

\* lines 73-81: the fenced block of one code child (of one line)
CodeBlock(serialised) ==
    LET unmarked == IF StartsWith(LStrip(serialised), <<"/", "/", "/">>)
                    THEN Drop(LStrip(serialised), 3) ELSE serialised
        code == Strip(unmarked)
        keywords == {<<"p", "u", "b", "l", "i", "c">>, <<"c", "l", "a", "s", "s">>,
                     <<"u", "s", "i", "n", "g">>, <<"a", "w", "a", "i", "t">>,
                     <<"v", "a", "r">>}
        lang == IF \E keyword \in keywords : ContainsSub(code, keyword)
                THEN <<"c", "s", "h", "a", "r", "p">> ELSE <<>>
    IN  IF code = <<>> THEN <<>>
        ELSE <<"\n", "FENCE">> \o lang \o <<"\n">> \o code \o <<"\n", "FENCE", "\n">>

\* lines 65-83
extract_code_examples(example_elem) ==
    Flatten([i \in 1..Len(example_elem.code) |->
                CodeBlock(XmlEscape(example_elem.code[i]))])

\* lines 100-107: the first example child of the member
MemberExample(member) ==
    IF member.examples = <<>> THEN <<>>
    ELSE clean_xml_text(ExampleContent(member.examples[1]))
         \o extract_code_examples(member.examples[1])

\* the dict process_member returns; [has] is the set of the keys 'methods',
\* 'properties', 'fields' the second pass has added to it, [idx] the position
\* of the member in the file
process_member(member, member_type, idx) ==
    LET name == NameAttr(member)
    IN  [name |-> IF StartsWith(name, TypeTag) \/ StartsWith(name, MethodTag)
                     \/ StartsWith(name, PropertyTag) \/ StartsWith(name, FieldTag)
                  THEN Drop(name, 2) ELSE name,
         summary |-> clean_xml_text(ElemText(member.summary)),
         remarks |-> clean_xml_text(ElemText(member.remarks)),
         example |-> MemberExample(member),
         parameters |-> <<>>,
         returns |-> clean_xml_text(ElemText(member.returns)),
         exceptions |-> <<>>,
         member_type |-> member_type,
         has |-> {}, methods |-> <<>>, properties |-> <<>>, fields |-> <<>>,
         idx |-> idx]

\* the dict as Python compares it: the member's position is not part of it
DictValue(info) == [info EXCEPT !.idx = 0]

\* first pass, one member. types maps a full name to the position of the
\* member whose dict it holds; objs holds the dicts by position; namespaces
\* maps a namespace to its list of <<type_name, full_name, position>>
VersionedCollectType(acc, m, idx, assembly_name) ==
    IF StartsWith(NameAttr(m), TypeTag)
    THEN LET type_info == process_member(m, "type", idx)
             full_name == type_info.name
             namespace == IF Contains(full_name, ".")
                          THEN JoinAllButLast(full_name, ".") ELSE assembly_name
             type_name == IF Contains(full_name, ".")
                          THEN SplitLast(full_name, ".") ELSE full_name
         IN  [acc EXCEPT !.types = DictSet(@, full_name, idx),
                         !.objs = [@ EXCEPT ![idx] = type_info],
                         !.namespaces =
                             DictAppend(@, namespace, <<type_name, full_name, idx>>)]
    ELSE acc

\* a lookup that matches every type of the member's namespace
Attach_SameNamespace(acc, type_name, key, member_info) ==
    LET owners == {acc.types[i][2] : i \in {j \in 1..Len(acc.types) :
                      JoinAllButLast(acc.types[j][1], ".")
                          = JoinAllButLast(type_name, ".")}}
    IN  [acc EXCEPT !.objs = [o \in DOMAIN @ |->
                        IF o \in owners
                        THEN [@[o] EXCEPT !.has = @ \cup {key},
                                          ![key] = Append(@, member_info)]
                        ELSE @[o]]]

\* types[type_name][key].append(member_info), creating the list when absent
Attach(acc, type_name, key, member_info) ==
    IF DictHas(acc.types, type_name)
    THEN LET owner == DictGet(acc.types, type_name)
         IN  [acc EXCEPT !.objs[owner].has = @ \cup {key},
                         !.objs[owner][key] = Append(@, member_info)]
    ELSE acc

\* second pass, one member
VersionedCollectMember(acc, m, idx) ==
    LET name == NameAttr(m)
    IN  IF StartsWith(name, MethodTag)
        THEN LET member_info == process_member(m, "method", idx)
             IN  Attach(acc, VersionedMethodPrefix(member_info.name),
                        "methods", member_info)
        ELSE IF StartsWith(name, PropertyTag)
        THEN LET member_info == process_member(m, "property", idx)
             IN  Attach(acc, VersionedMemberPrefix(member_info.name),
                        "properties", member_info)
        ELSE IF StartsWith(name, FieldTag)
        THEN LET member_info == process_member(m, "field", idx)
             IN  Attach(acc, VersionedMemberPrefix(member_info.name),
                        "fields", member_info)
        ELSE acc

RECURSIVE VersionedFirstPass(_, _, _, _)
VersionedFirstPass(members, i, acc, assembly_name) ==
    IF i > Len(members) THEN acc
    ELSE VersionedFirstPass(members, i + 1,
             VersionedCollectType(acc, members[i], i, assembly_name), assembly_name)

RECURSIVE VersionedSecondPass(_, _, _)
VersionedSecondPass(members, i, acc) ==
    IF i > Len(members) THEN acc
    ELSE VersionedSecondPass(members, i + 1,
             VersionedCollectMember(acc, members[i], i))

\* a < b on tuples of strings
RECURSIVE TupleLess(_, _)
TupleLess(a, b) ==
    IF b = <<>> THEN FALSE
    ELSE IF a = <<>> THEN TRUE
    ELSE IF Head(a) = Head(b) THEN TupleLess(Tail(a), Tail(b))
    ELSE StrLess(Head(a), Head(b))

\* sorted(s, key=...) with keys[i] the key of s[i]; stable
Sorted(s, keys) ==
    LET rank(i) == 1 + Cardinality({j \in 1..Len(s) :
                        \/ TupleLess(keys[j], keys[i])
                        \/ (~TupleLess(keys[i], keys[j]) /\ j < i)})
    IN  [r \in 1..Len(s) |-> s[CHOOSE i \in 1..Len(s) : rank(i) = r]]

\* sorted(items, key=lambda x: x['name'])
SortedByName(items) == Sorted(items, [i \in 1..Len(items) |-> <<items[i].name>>])
\* sorted(namespaces.items()): the keys are distinct
SortedByKey(d) == Sorted(d, [i \in 1..Len(d) |-> <<d[i][1]>>])
\* sorted(namespace_data['types']) when it does not raise: the tuples are
\* ordered on (type_name, full_name)
SortedTypes(tuples) ==
    Sorted(tuples, [i \in 1..Len(tuples) |-> <<tuples[i][1], tuples[i][2]>>])

\* sorted(namespace_data['types']) raises TypeError when two tuples agree on
\* both names and their dicts differ: dict < dict is not defined
SortRaises(objs, tuples) ==
    \E i, j \in 1..Len(tuples) :
        /\ i # j
        /\ tuples[i][1] = tuples[j][1] /\ tuples[i][2] = tuples[j][2]
        /\ DictValue(objs[tuples[i][3]]) # DictValue(objs[tuples[j][3]])

\* str.lower() on the letters A..Z; every other character is its own lower case
LowerCase ==
    <<<<"A", "a">>, <<"B", "b">>, <<"C", "c">>, <<"D", "d">>, <<"E", "e">>,
      <<"F", "f">>, <<"G", "g">>, <<"H", "h">>, <<"I", "i">>, <<"J", "j">>,
      <<"K", "k">>, <<"L", "l">>, <<"M", "m">>, <<"N", "n">>, <<"O", "o">>,
      <<"P", "p">>, <<"Q", "q">>, <<"R", "r">>, <<"S", "s">>, <<"T", "t">>,
      <<"U", "u">>, <<"V", "v">>, <<"W", "w">>, <<"X", "x">>, <<"Y", "y">>,
      <<"Z", "z">>>>
Lower(s) == [i \in 1..Len(s) |->
               IF DictHas(LowerCase, s[i]) THEN DictGet(LowerCase, s[i]) ELSE s[i]]
\* lines 226, 238: the anchor of a type
Slug(full_name) ==
    Replace(Replace(Replace(Replace(Lower(full_name), <<".">>, <<>>),
                            <<"<">>, <<>>), <<">">>, <<>>), <<"BACKTICK">>, <<>>)

\* lines 213-219
VersionedHeader(assembly_name, version) ==
    <<AuxLine("h1", assembly_name, version), Line("intro", <<>>),
      Line("info", <<>>), AuxLine("version", assembly_name, version),
      Line("latest", <<>>), Line("endinfo", <<>>), Line("toc", <<>>)>>

\* lines 222-227, one namespace of the table of contents
VersionedTocEntries(tuples) ==
    [i \in 1..Len(tuples) |-> AuxLine("toc-item", tuples[i][1], Slug(tuples[i][2]))]

VersionedRenderProperty(prop) ==
    <<Line("b", SplitLast(prop.name, "."))>>
    \o (IF prop.summary # <<>> THEN <<Line("p", prop.summary)>> ELSE <<>>)
    \o (IF prop.remarks # <<>> THEN <<Line("remarks", prop.remarks)>> ELSE <<>>)

VersionedMethodDisplay(name) ==
    LET method_name == SplitLast(name, ".")
    IN  IF Contains(method_name, "(") THEN SplitFirst(method_name, "(")
        ELSE method_name

VersionedRenderMethod(method) ==
    <<Line("b", VersionedMethodDisplay(method.name))>>
    \o (IF method.summary # <<>> THEN <<Line("p", method.summary)>> ELSE <<>>)
    \o (IF method.parameters # <<>> THEN <<Line("params", <<>>)>> ELSE <<>>)
    \o (IF method.returns # <<>> THEN <<Line("returns", method.returns)>> ELSE <<>>)
    \o (IF method.exceptions # <<>> THEN <<Line("exceptions", <<>>)>> ELSE <<>>)
    \o (IF method.remarks # <<>> THEN <<Line("remarks", method.remarks)>> ELSE <<>>)
    \o (IF method.example # <<>> THEN <<Line("example", method.example)>> ELSE <<>>)

VersionedRenderField(field) ==
    <<Line("b", SplitLast(field.name, "."))>>
    \o (IF field.summary # <<>> THEN <<Line("p", field.summary)>> ELSE <<>>)

\* lines 236-302, the section of one type
VersionedRenderType(full_name, type_info) ==
    <<AuxLine("h3", full_name, Slug(full_name))>>
    \o (IF type_info.summary # <<>> THEN <<Line("p", type_info.summary)>> ELSE <<>>)
    \o (IF type_info.remarks # <<>>
        THEN <<Line("remarks", type_info.remarks)>> ELSE <<>>)
    \o (IF type_info.example # <<>>
        THEN <<Line("example", type_info.example)>> ELSE <<>>)
    \o (IF "properties" \in type_info.has
        THEN <<Line("h4", <<"P">>)>>
             \o Flatten([i \in 1..Len(type_info.properties) |->
                   VersionedRenderProperty(
                       SortedByName(type_info.properties)[i])])
        ELSE <<>>)
    \o (IF "methods" \in type_info.has
        THEN <<Line("h4", <<"M">>)>>
             \o Flatten([i \in 1..Len(type_info.methods) |->
                   VersionedRenderMethod(SortedByName(type_info.methods)[i])])
        ELSE <<>>)
    \o (IF "fields" \in type_info.has
        THEN <<Line("h4", <<"F">>)>>
             \o Flatten([i \in 1..Len(type_info.fields) |->
                   VersionedRenderField(SortedByName(type_info.fields)[i])])
        ELSE <<>>)
    \o <<Line("hr", <<>>)>>

\* lines 222-227: what the table-of-contents loop writes over the sorted
\* namespaces from position i on, up to the namespace whose sort raises
RECURSIVE VersionedToc(_, _, _)
VersionedToc(objs, nss, i) ==
    IF i > Len(nss) THEN <<>>
    ELSE <<Line("toc-ns", nss[i][1])>>
         \o (IF SortRaises(objs, nss[i][2]) THEN <<>>
             ELSE VersionedTocEntries(SortedTypes(nss[i][2]))
                  \o <<Line("blank", <<>>)>> \o VersionedToc(objs, nss, i + 1))

\* lines 232-302
VersionedDetails(objs, nss) ==
    Flatten([i \in 1..Len(nss) |->
        <<Line("h2", nss[i][1])>>
        \o Flatten([k \in 1..Len(nss[i][2]) |->
              LET t == SortedTypes(nss[i][2])[k]
              IN  VersionedRenderType(t[2], objs[t[3]])])])

\* the one element of a singleton set: The({F(x) : x \in {e}}) is F(e) with
\* e evaluated once
The(S) == CHOOSE x \in S : TRUE

\* lines 152-209: both passes over the members of the file
VersionedAggregate(members, assembly_name) ==
    VersionedSecondPass(members, 1,
        VersionedFirstPass(members, 1,
            [types |-> <<>>, namespaces |-> <<>>,
             objs |-> [i \in 1..Len(members) |-> None]],
            assembly_name))

\* lines 212-302 over the sorted namespaces nss: what is written to
\* README.md, and whether a sort raised before the end
VersionedWrite(assembly_name, version, objs, nss) ==
    LET raises == \E i \in 1..Len(nss) : SortRaises(objs, nss[i][2])
        head == VersionedHeader(assembly_name, version) \o VersionedToc(objs, nss, 1)
    IN  [raises |-> raises,
         readme |-> IF raises THEN head
                    ELSE head \o <<Line("hr", <<>>)>> \o VersionedDetails(objs, nss)]

\* the whole function: [ok] is its return value, [opened] whether README.md
\* was opened for writing (and so created or truncated), [readme] what was
\* written to it
process_xml_file(xml_file, version) ==
    IF ~xml_file.wellFormed \/ xml_file.assembly = None
    THEN [ok |-> FALSE, opened |-> FALSE, assembly |-> None, types |-> <<>>,
          objs |-> <<>>, namespaces |-> <<>>, readme |-> <<>>]
    ELSE The({ The({ [ok |-> ~w.raises, opened |-> TRUE,
                      assembly |-> xml_file.assembly, types |-> acc.types,
                      objs |-> acc.objs, namespaces |-> acc.namespaces,
                      readme |-> w.readme] :
                     w \in {VersionedWrite(xml_file.assembly, version, acc.objs,
                                           SortedByKey(acc.namespaces))} }) :
               acc \in {VersionedAggregate(xml_file.members, xml_file.assembly)} })

\* ------------------------------------------------------------------------
\* The files the scripts read and write
\* ------------------------------------------------------------------------
\* a file found by glob: its path and what ET.parse makes of it
Artifact(path, file) ==
    [path |-> path, exists |-> file.exists, wellFormed |-> file.wellFormed,
     assembly |-> file.assembly, members |-> file.members]

\* the orders in which glob may return the files of a directory
Perms(S) ==
    {s \in [1..Cardinality(S) -> S] : \A i, j \in 1..Cardinality(S) : i # j => s[i] # s[j]}

\* sorted(names) for a set of distinct strings
SortedNames(S) ==
    [r \in 1..Cardinality(S) |->
        CHOOSE d \in S : Cardinality({e \in S : StrLess(e, d)}) = r - 1]

\* a file of the output tree: whether it exists and its lines
Absent == [exists |-> FALSE, lines |-> <<>>]
Written(lines) == [exists |-> TRUE, lines |-> lines]

\* open(path, "w") followed by the writes of new: the file holds new alone
WriteFile(old, new) == new

\* the README.md files of a tree after README.md of directory name is written
WriteReadme(tree, name, lines) ==
    (name :> WriteFile(IF name \in DOMAIN tree THEN tree[name] ELSE <<>>, lines)) @@ tree

\* ------------------------------------------------------------------------
\* generate-api-simple.py: main
\* ------------------------------------------------------------------------
RefDir ==
    <<"/", "r", "e", "f", "/">>
FileLimit == 10
SubstantialLength == 20

\* [f for f in xml_files if '/ref/' not in f]
NotInRefDir(f) == ~ContainsSub(f.path, RefDir)
\* lines 189-190
SimpleSelect(globbed) == Take(SelectSeq(globbed, NotInRefDir), FileLimit)

\* lines 215: summary is not None and summary.text and len(summary.text.strip()) > 20
IsDocumented(member) ==
    /\ member.summary # NoElement
    /\ member.summary # None
    /\ member.summary # <<>>
    /\ Len(Strip(member.summary)) > SubstantialLength

\* lines 212-216
DocumentedCount(members) ==
    Cardinality({i \in 1..Len(members) : IsDocumented(members[i])})

\* documented_count / total < 0.3 with the ratio at 0.3 passing as well
BelowThreshold_Inclusive(documented_count, total) == 10 * documented_count <= 3 * total

\* documented_count / total < 0.3, for total > 0: the quotient of two
\* integers up to 1000 rounds below the double 0.3 exactly when it is below 3/10
BelowThreshold(documented_count, total) == 10 * documented_count < 3 * total

\* line 219: len(members) > 0 and documented_count / len(members) < 0.3
InsufficientQuality(members) ==
    Len(members) > 0 /\ BelowThreshold(DocumentedCount(members), Len(members))

\* lines 204-224: the quality check of one file; a file that does not parse
\* raises inside the try and is not counted
LowQuality(f) == f.wellFormed /\ InsufficientQuality(f.members)

\* lines 229-238 with low quality not blocking the run
SimpleExitStatus_Soft(low_quality_count, success_count) ==
    IF success_count = 0 THEN 1 ELSE 0

\* lines 229-238: sys.exit(1) or falling through to the index
SimpleExitStatus(low_quality_count, success_count) ==
    IF low_quality_count > 0 THEN 1
    ELSE IF success_count = 0 THEN 1
    ELSE 0

\* lines 243-278: api/index.md over the directories of api/generated
SimpleIndex(generated_dirs) ==
    <<Line("h1", <<>>), Line("intro", <<>>)>>
    \o (IF generated_dirs # {}
        THEN <<Line("generated", <<>>)>>
             \o [i \in 1..Cardinality(generated_dirs) |->
                   Line("entry", SortedNames(generated_dirs)[i])]
        ELSE <<Line("unavailable", <<>>)>>)
    \o <<Line("quickref", <<>>), Line("examples", <<>>)>>

\* ------------------------------------------------------------------------
\* generate-versioned-api-docs.py: main
\* ------------------------------------------------------------------------

\* [f for f in xml_files if "ref" not in f]
NotRef(f) == ~ContainsSub(f.path, <<"r", "e", "f">>)

\* one entry of the release listing, and the two outcomes of the request:
\* an exception anywhere in the try block, or a listing
Release(tag_name, draft, published_at) ==
    [tag_name |-> tag_name, draft |-> draft, published_at |-> published_at]
FetchFailed == [ok |-> FALSE, body |-> <<>>]
Fetched(body) == [ok |-> TRUE, body |-> body]

Published(r) == ~r.draft

\* list.sort(key=published_at, reverse=True): stable, newest first
RECURSIVE SortByDate(_)
SortByDate(rs) ==
    IF rs = <<>> THEN <<>>
    ELSE LET head == SortByDate(Take(rs, Len(rs) - 1))
             last == rs[Len(rs)]
             ahead == Cardinality({i \in 1..Len(head) :
                                      head[i].published_at >= last.published_at})
         IN  Take(head, ahead) \o <<last>> \o Drop(head, ahead)

\* lines 19-33
get_github_releases(response) ==
    IF ~response.ok THEN <<>>
    ELSE SortByDate(SelectSeq(response.body, Published))

\* the current version goes behind the fetched tags
VersionList_Appended(releases, current_version) ==
    LET versions == [i \in 1..Len(releases) |-> releases[i].tag_name]
    IN  IF \E i \in 1..Len(versions) : versions[i] = current_version
        THEN versions
        ELSE versions \o <<current_version>>

\* lines 345-352
VersionList(releases, current_version) ==
    LET versions == [i \in 1..Len(releases) |-> releases[i].tag_name]
    IN  IF \E i \in 1..Len(versions) : versions[i] = current_version
        THEN versions
        ELSE <<current_version>> \o versions

\* lines 357-372: the files of belay-source, else those of ../src unfiltered
VersionedSelect(globbed, existing) ==
    IF SelectSeq(globbed, NotRef) # <<>> THEN SelectSeq(globbed, NotRef) ELSE existing

\* lines 313-335: api/versions.md
generate_version_index(versions, current_version) ==
    <<Line("h1", <<>>), Line("intro", <<>>), Line("available", <<>>)>>
    \o [i \in 1..Len(versions) |->
          IF versions[i] = current_version
          THEN Line("current", versions[i])
          ELSE Line("released", versions[i])]
    \o <<Line("history", <<>>)>>

\* lines 390-424: api/index.md with the version selector
VersionedIndex(versions, current_version, generated_dirs) ==
    <<Line("h1", <<>>), Line("intro", <<>>), Line("selector", <<>>),
      Line("viewing", current_version)>>
    \o (IF Len(versions) > 1 THEN <<Line("others", <<>>)>> ELSE <<>>)
    \o <<Line("endtip", <<>>), Line("generated", <<>>)>>
    \o [i \in 1..Cardinality(generated_dirs) |->
          Line("entry", SortedNames(generated_dirs)[i])]
    \o <<Line("quickref", <<>>), Line("examples", <<>>)>>

\* ------------------------------------------------------------------------
\* create-fallback-api.py
\* ------------------------------------------------------------------------
BelayCore ==
    <<"B", "e", "l", "a", "y", ".", "C", "o", "r", "e">>
BelayAttributes ==
    <<"B", "e", "l", "a", "y", ".", "A", "t", "t", "r", "i", "b",
      "u", "t", "e", "s">>
BelaySync ==
    <<"B", "e", "l", "a", "y", ".", "S", "y", "n", "c">>
\* lines 18-55: the assemblies and the number of their key_classes entries
FallbackAssemblies == <<<<BelayCore, 14>>, <<BelayAttributes, 5>>, <<BelaySync, 2>>>>

\* the second line of a fallback page without the word Fallback
FallbackNotice_Generic ==
    <<"*", "P", "l", "a", "c", "e", "h", "o", "l", "d", "e", "r",
      " ", "d", "o", "c", "u", "m", "e", "n", "t", "a", "t", "i",
      "o", "n", " ", "-", " ", "X", "M", "L", " ", "g", "e", "n",
      "e", "r", "a", "t", "i", "o", "n", " ", "u", "n", "a", "v",
      "a", "i", "l", "a", "b", "l", "e", "*">>

\* line 63
FallbackNotice ==
    <<"*", "F", "a", "l", "l", "b", "a", "c", "k", " ", "d", "o",
      "c", "u", "m", "e", "n", "t", "a", "t", "i", "o", "n", " ",
      "-", " ", "X", "M", "L", " ", "g", "e", "n", "e", "r", "a",
      "t", "i", "o", "n", " ", "u", "n", "a", "v", "a", "i", "l",
      "a", "b", "l", "e", "*">>

\* lines 61-73: README.md of one assembly with n key_classes entries
FallbackReadme(assembly_name, n) ==
    <<Line("h1", assembly_name), Line("notice", FallbackNotice),
      Line("overview", <<>>), CountLine("classes", n), Line("full", <<>>)>>

\* lines 76-110: api/index.md
FallbackIndex ==
    <<Line("h1", <<>>), Line("fallback", <<>>), Line("generated", <<>>)>>
    \o [i \in 1..Len(FallbackAssemblies) |->
          Line("entry", SortedNames({FallbackAssemblies[j][1] :
                                       j \in 1..Len(FallbackAssemblies)})[i])]
    \o <<Line("quickref", <<>>), Line("examples", <<>>), Line("status", <<>>)>>

\* lines 57-73 over a tree of README.md files
RECURSIVE FallbackWrite(_, _)
FallbackWrite(tree, i) ==
    IF i > Len(FallbackAssemblies) THEN tree
    ELSE FallbackWrite(WriteReadme(tree, FallbackAssemblies[i][1],
                                   FallbackReadme(FallbackAssemblies[i][1],
                                                  FallbackAssemblies[i][2])),
                       i + 1)

\* ------------------------------------------------------------------------
\* validate-deployment.py: DeploymentValidator
\* ------------------------------------------------------------------------
\* the validator object: the two message lists and the counters
NewValidator ==
    [errors |-> <<>>, warnings |-> <<>>,
     stats |-> [critical_files |-> 0, api_assemblies |-> 0, nav_links |-> 0,
                assets |-> 0, quality_pages |-> 0]]

\* a logged message: its wording, the path or assembly it names, a count
Msg(kind, path, n) == [kind |-> kind, path |-> path, n |-> n]

\* lines 22-25
log_error(v, message) == [v EXCEPT !.errors = Append(@, message)]

\* log_warning filing the message under the errors as well
log_warning_AsError(v, message) ==
    [v EXCEPT !.warnings = Append(@, message), !.errors = Append(@, message)]

\* lines 27-30
log_warning(v, message) == [v EXCEPT !.warnings = Append(@, message)]

\* what the validator reads of one file: whether it exists, whether open
\* and read succeed, whether it has 500 characters or more, whether it holds
\* "Fallback documentation", "Documentation in Progress", and "404" beside
\* "nav" or "menu"; a page holds one href for each of the four sections
NoPage ==
    [exists |-> FALSE, readable |-> FALSE, long |-> FALSE, fallback |-> FALSE,
     placeholder |-> FALSE, nav404 |-> FALSE]
Page(readable, long, fallback, placeholder, nav404) ==
    [exists |-> TRUE, readable |-> readable, long |-> long, fallback |-> fallback,
     placeholder |-> placeholder, nav404 |-> nav404]

CriticalFiles ==
    <<"index.html", "guide/getting-started.html", "examples/index.html",
      "api/index.html", "hardware/index.html">>
ExpectedAssemblies == <<"Belay.Core", "Belay.Attributes", "Belay.Sync">>
ImportantPages ==
    <<"guide/getting-started.html", "examples/first-connection.html", "api/index.html">>
NavPatterns == 4

\* a missing critical file reported as a warning
RECURSIVE validate_critical_files_WarnOnly(_, _, _)
validate_critical_files_WarnOnly(v, d, i) ==
    IF i > Len(CriticalFiles) THEN v
    ELSE validate_critical_files_WarnOnly(
             IF ~d.files[CriticalFiles[i]].exists
             THEN log_warning(v, Msg("Critical file missing", CriticalFiles[i], 0))
             ELSE [v EXCEPT !.stats.critical_files = @ + 1],
             d, i + 1)

\* lines 48-53, from the i-th critical file on
RECURSIVE validate_critical_files(_, _, _)
validate_critical_files(v, d, i) ==
    IF i > Len(CriticalFiles) THEN v
    ELSE validate_critical_files(
             IF ~d.files[CriticalFiles[i]].exists
             THEN log_error(v, Msg("Critical file missing", CriticalFiles[i], 0))
             ELSE [v EXCEPT !.stats.critical_files = @ + 1],
             d, i + 1)

\* a missing assembly page reported as an error
RECURSIVE CheckAssemblies_MissingIsError(_, _, _)
CheckAssemblies_MissingIsError(v, d, i) ==
    IF i > Len(ExpectedAssemblies) THEN v
    ELSE CheckAssemblies_MissingIsError(
             IF d.readmes[ExpectedAssemblies[i]].exists
             THEN [v EXCEPT !.stats.api_assemblies = @ + 1]
             ELSE log_error(v, Msg("API documentation missing",
                                   ExpectedAssemblies[i], 0)),
             d, i + 1)

\* lines 69-84, from the i-th expected assembly on
RECURSIVE CheckAssemblies(_, _, _)
CheckAssemblies(v, d, i) ==
    IF i > Len(ExpectedAssemblies) THEN v
    ELSE CheckAssemblies(
             IF d.readmes[ExpectedAssemblies[i]].exists
             THEN [v EXCEPT !.stats.api_assemblies = @ + 1]
             ELSE log_warning(v, Msg("API documentation missing",
                                     ExpectedAssemblies[i], 0)),
             d, i + 1)

\* lines 76-82: the pages counted as fallback; a page that cannot be read
\* is passed over
FallbackCount(d) ==
    Cardinality({i \in 1..Len(ExpectedAssemblies) :
                    /\ d.readmes[ExpectedAssemblies[i]].exists
                    /\ d.readmes[ExpectedAssemblies[i]].readable
                    /\ d.readmes[ExpectedAssemblies[i]].fallback})

\* lines 55-89
validate_api_documentation(v, d) ==
    IF ~d.api_generated
    THEN log_error(v, Msg("API documentation directory not found", "api/generated", 0))
    ELSE IF FallbackCount(d) > 0
         THEN log_warning(CheckAssemblies(v, d, 1),
                          Msg("Using fallback documentation", "", FallbackCount(d)))
         ELSE CheckAssemblies(v, d, 1)

\* lines 91-123
validate_navigation_integrity(v, d) ==
    IF ~d.files["index.html"].exists
    THEN log_error(v, Msg("Cannot validate navigation: index.html missing",
                          "index.html", 0))
    ELSE IF ~d.files["index.html"].readable
         THEN log_warning(v, Msg("Could not validate navigation", "index.html", 0))
         ELSE IF d.files["index.html"].nav404
              THEN log_warning([v EXCEPT !.stats.nav_links = @ + NavPatterns],
                               Msg("Potential navigation 404 detected", "index.html", 0))
              ELSE [v EXCEPT !.stats.nav_links = @ + NavPatterns]

\* lines 125-146
validate_assets_and_resources(v, d) == [v EXCEPT !.stats.assets = @ + d.asset_files]

\* lines 159-175, from the i-th important page on
RECURSIVE validate_content_quality(_, _, _)
validate_content_quality(v, d, i) ==
    IF i > Len(ImportantPages) THEN v
    ELSE validate_content_quality(
             LET page == d.files[ImportantPages[i]]
             IN  IF ~page.exists THEN v
                 ELSE IF ~page.readable
                 THEN log_warning(v, Msg("Could not check content quality",
                                         ImportantPages[i], 0))
                 ELSE IF ~page.long
                 THEN log_warning(v, Msg("has very little content", ImportantPages[i], 0))
                 ELSE IF page.placeholder
                 THEN log_warning(v, Msg("still contains placeholder content",
                                         ImportantPages[i], 0))
                 ELSE [v EXCEPT !.stats.quality_pages = @ + 1],
             d, i + 1)

\* lines 177-212: the value returned
generate_report(v) == IF Len(v.errors) = 0 THEN 0 ELSE 1

\* sample pages and the build-output directories tried
Plain == Page(TRUE, TRUE, FALSE, FALSE, FALSE)
Short == Page(TRUE, FALSE, FALSE, FALSE, FALSE)
Unreadable == Page(FALSE, TRUE, FALSE, FALSE, FALSE)
FallbackPage == Page(TRUE, TRUE, TRUE, FALSE, FALSE)

\* the pages the validator looks at, each with the contents tried for it
DistFiles ==
    { [p \in {"index.html", "guide/getting-started.html", "examples/index.html",
              "api/index.html", "hardware/index.html",
              "examples/first-connection.html"} |->
         CASE p = "index.html" -> index
           [] p = "guide/getting-started.html" -> guide
           [] p = "examples/index.html" -> examples
           [] p = "api/index.html" -> api
           [] p = "hardware/index.html" -> hardware
           [] OTHER -> first] :
        index \in {NoPage, Plain, Unreadable, Page(TRUE, TRUE, FALSE, FALSE, TRUE)},
        guide \in {NoPage, Plain, Short, Page(TRUE, FALSE, FALSE, TRUE, FALSE)},
        examples \in {NoPage, Plain},
        api \in {NoPage, Plain, Page(TRUE, TRUE, FALSE, TRUE, FALSE)},
        hardware \in {NoPage, Plain},
        first \in {NoPage, Plain, Unreadable} }
\* api/generated/<assembly>/README.html of the three expected assemblies
DistReadmes ==
    { [a \in {"Belay.Core", "Belay.Attributes", "Belay.Sync"} |->
         CASE a = "Belay.Core" -> core
           [] a = "Belay.Attributes" -> attributes
           [] OTHER -> sync] :
        core \in {NoPage, Plain, FallbackPage, Page(FALSE, TRUE, TRUE, FALSE, FALSE)},
        attributes \in {NoPage, Plain, FallbackPage},
        sync \in {NoPage, Plain} }
NoReadmes == [a \in {"Belay.Core", "Belay.Attributes", "Belay.Sync"} |-> NoPage]
NoDist ==
    [exists |-> FALSE, files |-> [p \in DOMAIN CHOOSE f \in DistFiles : TRUE |-> NoPage],
     api_generated |-> FALSE, readmes |-> NoReadmes, asset_files |-> 0]

\* ------------------------------------------------------------------------
\* State
\* ------------------------------------------------------------------------
VARIABLES
    member_name,        \* name attribute of the method member being classified
    simple_prefix,      \* type_prefix computed by generate-api-simple.py
    versioned_prefix,   \* type_name computed by generate-versioned-api-docs.py
    xml_file,           \* the XML file handed to the per-file functions
    simple_out,         \* what create_assembly_docs(xml_file) did
    versioned_out,      \* what process_xml_file(xml_file, version) did
    quality_members,    \* the members of the file under the quality check
    quality_documented, \* how many of them were built with a substantial summary
    quality_verdict,    \* "unchecked", "low" or "ok"
    artifacts,          \* the XML files under belay-source
    existing_xml,       \* the XML files under ../src
    releases,           \* tag names returned by get_github_releases
    script,             \* the script running or last run
    pc,                 \* "idle", "loop" or "done"
    xml_files,          \* main: the list the loop goes through
    file_idx,           \* position of the loop in xml_files
    success_count,
    low_quality_count,
    results,            \* what the per-file function returned, file by file
    exit_status,
    api_generated,      \* api/generated: directory name -> lines of README.md
    api_versions,       \* api/versions/<version>: directory name -> README.md
    api_index,          \* api/index.md
    api_versions_md,    \* api/versions.md
    api_dir,            \* whether the directory api/ exists
    written,            \* the files the current run wrote
    runs,               \* script runs started so far
    prev,               \* the run before the current one
    dist,               \* the build-output directory handed to the validator
    validator,          \* the DeploymentValidator: errors, warnings, stats
    validator_pc,       \* how far run_validation has come
    exit_code           \* what run_validation returned, -1 before

prefixVars == <<member_name, simple_prefix, versioned_prefix>>
fileVars == <<xml_file, simple_out, versioned_out>>
qualityVars == <<quality_members, quality_documented, quality_verdict>>
envVars == <<artifacts, existing_xml, releases>>
loopVars == <<xml_files, file_idx, success_count, low_quality_count, results>>
treeVars == <<api_generated, api_versions, api_index, api_versions_md, api_dir>>
runVars == <<script, pc, exit_status, written, runs, prev>>
mainVars == <<envVars, loopVars, treeVars, runVars>>
validatorVars == <<dist, validator, validator_pc, exit_code>>
vars == <<prefixVars, fileVars, qualityVars, mainVars, validatorVars>>

NotRun == [done |-> FALSE]
Ran(result) == [done |-> TRUE, res |-> result]
NoFile == XmlFile(FALSE, FALSE, None, <<>>)

NothingWritten ==
    [generated |-> <<>>, versions |-> <<>>, index |-> Absent, versions_md |-> Absent]
\* what is kept of a run once the next one starts
Snapshot ==
    [script |-> script, files |-> xml_files, written |-> written,
     exit_status |-> exit_status]

PrefixIdle == member_name = <<>> /\ simple_prefix = None /\ versioned_prefix = None
FileIdle == xml_file = NoFile /\ simple_out = NotRun /\ versioned_out = NotRun
QualityIdle ==
    quality_members = <<>> /\ quality_documented = 0 /\ quality_verdict = "unchecked"
NoRunYet ==
    /\ script = "none" /\ pc = "idle" /\ exit_status = 0
    /\ xml_files = <<>> /\ file_idx = 1 /\ success_count = 0
    /\ low_quality_count = 0 /\ results = <<>>
    /\ api_generated = <<>> /\ api_versions = <<>>
    /\ api_index = Absent /\ api_versions_md = Absent
    /\ written = NothingWritten /\ runs = 0
    /\ prev = [script |-> "none", files |-> <<>>, written |-> NothingWritten,
               exit_status |-> 0]
MainIdle ==
    /\ artifacts = {} /\ existing_xml = {} /\ releases = FetchFailed
    /\ NoRunYet /\ api_dir = FALSE
ValidatorIdle ==
    dist = NoDist /\ validator = NewValidator /\ validator_pc = "new" /\ exit_code = -1

\* ------------------------------------------------------------------------
\* Classification of one method member by both generators
\* ------------------------------------------------------------------------
NameChars == {"N", "M", ".", "(", "#"}
QualifiedNames == UNION {[1..n -> NameChars] : n \in 0..MaxNameLen}

InitPrefix ==
    /\ member_name \in {MethodTag \o q : q \in QualifiedNames}
    /\ simple_prefix = None
    /\ versioned_prefix = None
    /\ FileIdle /\ QualityIdle /\ MainIdle /\ ValidatorIdle

\* create_assembly_docs: elif name.startswith('M:')
SimpleClassifyMethod ==
    /\ simple_prefix = None
    /\ StartsWith(member_name, MethodTag)
    /\ simple_prefix' = SimpleMethodPrefix(Drop(member_name, 2))
    /\ UNCHANGED <<member_name, versioned_prefix, fileVars, qualityVars, validatorVars, mainVars>>

\* process_xml_file, second pass: if name.startswith('M:')
VersionedClassifyMethod ==
    /\ versioned_prefix = None
    /\ StartsWith(member_name, MethodTag)
    /\ versioned_prefix' = VersionedMethodPrefix(Drop(member_name, 2))
    /\ UNCHANGED <<member_name, simple_prefix, fileVars, qualityVars, validatorVars, mainVars>>

NextPrefix == SimpleClassifyMethod \/ VersionedClassifyMethod

SpecPrefix == InitPrefix /\ [][NextPrefix]_vars

\* ------------------------------------------------------------------------
\* Claims about the owning-type prefix
\* ------------------------------------------------------------------------
QName == Drop(member_name, 2)
ParenPos == Find(QName, "(")
HasParameterList == ParenPos > 0
DotsBeforeParen == {i \in 1..Len(QName) : QName[i] = "." /\ i < ParenPos}
LastDotBeforeParen == CHOOSE i \in DotsBeforeParen : \A j \in DotsBeforeParen : j <= i
BothClassified == simple_prefix # None /\ versioned_prefix # None

\* C1: a method whose qualified name has a parameter list is attributed, by
\* both generators, to the text before the last dot that precedes the
\* opening parenthesis, whatever dots the parameter list contains.
C1_ParenAwarePrefix ==
    (HasParameterList /\ DotsBeforeParen # {}) =>
        /\ simple_prefix # None =>
               simple_prefix = SubSeq(QName, 1, LastDotBeforeParen - 1)
        /\ versioned_prefix # None =>
               versioned_prefix = SubSeq(QName, 1, LastDotBeforeParen - 1)

\* a method N.M(N.N classified by both generators: dots inside the list
C1_Witness ==
    /\ HasParameterList /\ DotsBeforeParen # {}
    /\ \E i \in 1..Len(QName) : QName[i] = "." /\ i > ParenPos
    /\ BothClassified
    /\ simple_prefix = <<"N">>

\* C2: a method whose qualified name contains '#', with or without a
\* parameter list, is attributed by both generators to the text before the
\* first '#'.
C2_HashPrefix ==
    Contains(QName, "#") =>
        /\ simple_prefix # None =>
               simple_prefix = SubSeq(QName, 1, Find(QName, "#") - 1)
        /\ versioned_prefix # None =>
               versioned_prefix = SubSeq(QName, 1, Find(QName, "#") - 1)

\* ------------------------------------------------------------------------
\* One XML file through both per-file functions
\* ------------------------------------------------------------------------
N_A == <<"N", ".", "A">>
N_B == <<"N", ".", "B">>
ShortSummary == <<"o", "k">>
Version == <<"v", "1">>
AssemblyA == <<"A">>

MemberPool ==
    { Member(TypeTag \o N_A, ShortSummary),
      Member(TypeTag \o N_A, NoElement),
      Member(TypeTag \o N_B, ShortSummary),
      Member(MethodTag \o <<"N", ".", "A", ".", "M", "(", "N", ".", "B">>, ShortSummary),
      Member(MethodTag \o <<"N", ".", "B", ".", "M">>, ShortSummary),
      Member(MethodTag \o <<"N", ".", "C", ".", "M">>, ShortSummary),
      Member(PropertyTag \o <<"N", ".", "A", ".", "P">>, ShortSummary),
      Member(FieldTag \o <<"N", ".", "A", ".", "F">>, ShortSummary),
      Member(<<"E", ":", "N", ".", "A", ".", "E">>, ShortSummary),
      Member(<<>>, ShortSummary),
      Member(None, NoElement) }

MemberLists == UNION {[1..n -> MemberPool] : n \in 0..MaxMembers}

InitFile ==
    /\ xml_file \in {XmlFile(TRUE, TRUE, AssemblyA, ms) : ms \in MemberLists}
                    \cup {XmlFile(TRUE, FALSE, None, <<>>),
                          XmlFile(TRUE, TRUE, None, <<Member(TypeTag \o N_A, ShortSummary)>>)}
    /\ simple_out = NotRun
    /\ versioned_out = NotRun
    /\ PrefixIdle /\ QualityIdle /\ MainIdle /\ ValidatorIdle

\* generate-api-simple.py: create_assembly_docs(xml_file)
RunSimple ==
    /\ ~simple_out.done
    /\ simple_out' = Ran(create_assembly_docs(xml_file))
    /\ UNCHANGED <<xml_file, versioned_out, prefixVars, qualityVars, validatorVars, mainVars>>

\* generate-versioned-api-docs.py: process_xml_file(xml_file, version)
RunVersioned ==
    /\ ~versioned_out.done
    /\ versioned_out' = Ran(process_xml_file(xml_file, Version))
    /\ UNCHANGED <<xml_file, simple_out, prefixVars, qualityVars, validatorVars, mainVars>>

NextFile == RunSimple \/ RunVersioned

SpecFile == InitFile /\ [][NextFile]_vars

\* ------------------------------------------------------------------------
\* Claims about one file
\* ------------------------------------------------------------------------
HasTag(m, tag) == StartsWith(NameAttr(m), tag)
Recognised(m) ==
    HasTag(m, TypeTag) \/ HasTag(m, MethodTag) \/ HasTag(m, PropertyTag)
        \/ HasTag(m, FieldTag)
WithoutUnrecognised(f) == [f EXCEPT !.members = SelectSeq(@, Recognised)]
Positions == 1..Len(xml_file.members)
TypePositions == {i \in Positions : HasTag(xml_file.members[i], TypeTag)}
TypeNames == {Drop(NameAttr(xml_file.members[i]), 2) : i \in TypePositions}
Parses == xml_file.wellFormed /\ xml_file.assembly # None
LinesOf(readme, kinds) == {i \in 1..Len(readme) : readme[i].kind \in kinds}

\* C3: a member whose name starts with none of T:, M:, P:, F: (an empty or
\* missing name included) yields no type record and no rendered entry and
\* raises no error: each generator returns, records and writes exactly what
\* it does for the same file with those members taken out.
C3_UnrecognisedIgnored ==
    /\ simple_out.done =>
          LET r == simple_out.res
              q == create_assembly_docs(WithoutUnrecognised(xml_file))
          IN  /\ r.ok = q.ok /\ r.ok = Parses
              /\ r.readme = q.readme
              /\ DictKeys(r.agg.types) = DictKeys(q.agg.types)
    /\ versioned_out.done =>
          LET r == versioned_out.res
              q == process_xml_file(WithoutUnrecognised(xml_file), Version)
          IN  /\ r.ok = q.ok
              /\ r.readme = q.readme
              /\ DictKeys(r.types) = DictKeys(q.types)

\* both generators have processed a file in which an unrecognised member
\* precedes a type and a method of that type
C3_Witness ==
    /\ simple_out.done /\ versioned_out.done
    /\ simple_out.res.ok /\ versioned_out.res.ok
    /\ \E i, j, k \in Positions :
          /\ i < j /\ j < k
          /\ ~Recognised(xml_file.members[i])
          /\ HasTag(xml_file.members[j], TypeTag)
          /\ HasTag(xml_file.members[k], MethodTag)
    /\ LinesOf(simple_out.res.readme, {"h4"}) # {}

\* C5: for every well-formed file (one that parses and names its assembly)
\* the number of type records built equals the number of its T: members,
\* and so does the number of type sections the multi-version renderer
\* writes.
C5_OneRecordPerTypeMember ==
    /\ (simple_out.done /\ Parses) =>
          Len(simple_out.res.agg.types) = Cardinality(TypePositions)
    /\ (versioned_out.done /\ Parses) =>
          /\ Len(versioned_out.res.types) = Cardinality(TypePositions)
          /\ Cardinality(LinesOf(versioned_out.res.readme, {"h3"}))
                = Cardinality(TypePositions)

\* the type prefix the generator computes for the member at position i
SimpleComputedPrefix(m) ==
    IF HasTag(m, MethodTag) THEN SimpleMethodPrefix(Drop(NameAttr(m), 2))
    ELSE SimplePropertyPrefix(Drop(NameAttr(m), 2))
VersionedComputedPrefix(m) ==
    IF HasTag(m, MethodTag) THEN VersionedMethodPrefix(Drop(NameAttr(m), 2))
    ELSE VersionedMemberPrefix(Drop(NameAttr(m), 2))
IsOwned(m) == HasTag(m, MethodTag) \/ HasTag(m, PropertyTag) \/ HasTag(m, FieldTag)
OwnedPositions == {i \in Positions : IsOwned(xml_file.members[i])}
HoldsIdx(entries, i) == \E e \in 1..Len(entries) : entries[e].idx = i

\* the type records of the simple generator that hold member i
SimpleOwners(agg, i) ==
    {k \in {agg.types[t][1] : t \in 1..Len(agg.types)} :
        \/ DictHas(agg.methods, k) /\ HoldsIdx(DictGet(agg.methods, k), i)
        \/ DictHas(agg.properties, k) /\ HoldsIdx(DictGet(agg.properties, k), i)}

\* the type dicts of the multi-version generator that hold member i
VersionedOwners(objs, i) ==
    {t \in TypePositions :
        \/ HoldsIdx(objs[t].methods, i)
        \/ HoldsIdx(objs[t].properties, i)
        \/ HoldsIdx(objs[t].fields, i)}

Orphan(m) == IsOwned(m) /\ VersionedComputedPrefix(m) \notin TypeNames
WithoutOrphans(f) == [f EXCEPT !.members = SelectSeq(@, LAMBDA m : ~Orphan(m))]

\* C7: within one assembly every method, property or field is attached to at
\* most one type record, the one named by the member's computed type prefix;
\* a member whose prefix names no T: member is attached to none, is rendered
\* in no type section and causes no error.
C7_AtMostOneOwner ==
    /\ (simple_out.done /\ Parses) =>
          LET r == simple_out.res
          IN  /\ r.ok
              /\ \A i \in OwnedPositions :
                    LET m == xml_file.members[i]
                        owners == SimpleOwners(r.agg, i)
                    IN  /\ Cardinality(owners) <= 1
                        /\ owners \subseteq {SimpleComputedPrefix(m)}
                        /\ SimpleComputedPrefix(m) \notin TypeNames => owners = {}
              /\ Cardinality(LinesOf(r.readme, {"h4"}))
                    = Cardinality({i \in OwnedPositions : SimpleOwners(r.agg, i) # {}})
    /\ (versioned_out.done /\ Parses) =>
          LET r == versioned_out.res
          IN  /\ \A i \in OwnedPositions :
                    LET m == xml_file.members[i]
                        owners == VersionedOwners(r.objs, i)
                    IN  /\ Cardinality(owners) <= 1
                        /\ \A t \in owners : r.objs[t].name = VersionedComputedPrefix(m)
                        /\ VersionedComputedPrefix(m) \notin TypeNames => owners = {}
              /\ r.ok = process_xml_file(WithoutOrphans(xml_file), Version).ok
              /\ r.ok => Cardinality(LinesOf(r.readme, {"b"}))
                           = Cardinality({i \in OwnedPositions :
                                             VersionedOwners(r.objs, i) # {}})

\* both generators have processed a file with a type, a method of that type
\* and a method whose prefix names no type
C7_Witness ==
    /\ simple_out.done /\ versioned_out.done
    /\ simple_out.res.ok /\ versioned_out.res.ok
    /\ Cardinality(TypeNames) = 1
    /\ \E i, j \in OwnedPositions :
          /\ SimpleOwners(simple_out.res.agg, i) # {}
          /\ VersionedOwners(versioned_out.res.objs, i) # {}
          /\ Orphan(xml_file.members[j])

\* ------------------------------------------------------------------------
\* Runs of the three scripts over one output tree
\* ------------------------------------------------------------------------
LongSummary ==
    <<"O", "p", "e", "n", "s", " ", "t", "h", "e", " ", "c", "o",
      "n", "n", "e", "c", "t", "i", "o", "n", ".">>
DocumentedType == Member(TypeTag \o N_A, LongSummary)
BareType == Member(TypeTag \o N_A, ShortSummary)

\* a documented assembly A
GoodFile == Artifact(<<"a">>, XmlFile(TRUE, TRUE, AssemblyA, <<DocumentedType>>))

\* beside it: another build of assembly A without substantial documentation;
\* a file that is not well-formed XML; a well-formed one without
\* assembly/name; an assembly B declaring one type twice, documented
\* differently; a reference assembly; a link whose target is gone
FilePool ==
    { GoodFile,
      Artifact(<<"b">>, XmlFile(TRUE, TRUE, AssemblyA, <<BareType>>)),
      Artifact(<<"c">>, XmlFile(TRUE, FALSE, None, <<>>)),
      Artifact(<<"d">>, XmlFile(TRUE, TRUE, None, <<DocumentedType>>)),
      Artifact(<<"e">>, XmlFile(TRUE, TRUE, <<"B">>, <<DocumentedType, BareType>>)),
      Artifact(RefDir \o <<"f">>, XmlFile(TRUE, TRUE, <<"B">>, <<DocumentedType>>)),
      Artifact(<<"g">>, XmlFile(FALSE, FALSE, None, <<>>)) }
ReleaseLists ==
    LET v1 == Release(Version, FALSE, 1)
        v2 == Release(<<"v", "2">>, FALSE, 2)
        draft == Release(<<"v", "3">>, TRUE, 3)
    IN  {FetchFailed, Fetched(<<>>), Fetched(<<v2>>), Fetched(<<v1, v2>>),
         Fetched(<<draft, v2>>)}

InitMain ==
    /\ artifacts \in {S \in SUBSET FilePool : Cardinality(S) <= MaxFiles}
    /\ existing_xml \in IF \E f \in artifacts : NotRef(f) THEN {{}} ELSE {{}, {GoodFile}}
    /\ releases \in ReleaseLists
    /\ NoRunYet
    /\ api_dir \in BOOLEAN
    /\ PrefixIdle /\ FileIdle /\ QualityIdle /\ ValidatorIdle

\* the start of any script: counters reset, the last run remembered
Begin(name) ==
    /\ pc \in {"idle", "done"}
    /\ runs < MaxRuns
    /\ runs' = runs + 1
    /\ script' = name
    /\ prev' = Snapshot
    /\ file_idx' = 1 /\ success_count' = 0 /\ low_quality_count' = 0
    /\ results' = <<>>

\* generate-api-simple.py main, lines 188-199
SimpleStart ==
    /\ Begin("simple")
    /\ \E globbed \in Perms(artifacts) :
         /\ xml_files' = SimpleSelect(globbed)
         /\ IF SimpleSelect(globbed) = <<>>
            THEN pc' = "done" /\ exit_status' = 1
            ELSE pc' = "loop" /\ exit_status' = 0
    /\ written' = NothingWritten
    /\ UNCHANGED <<envVars, treeVars, prefixVars, fileVars, qualityVars, validatorVars>>

\* the loop body with a failure of the per-file function ending the run
SimpleProcessFile_FailureEscapes ==
    /\ script = "simple" /\ pc = "loop" /\ file_idx <= Len(xml_files)
    /\ \E f \in {xml_files[file_idx]} : \E r \in {create_assembly_docs(f)} :
         IF f.exists
         THEN /\ low_quality_count' = low_quality_count + IF LowQuality(f) THEN 1 ELSE 0
              /\ success_count' = success_count + IF r.ok THEN 1 ELSE 0
              /\ results' = Append(results, IF r.ok THEN "True" ELSE "False")
              /\ api_generated' = IF r.opened
                                  THEN WriteReadme(api_generated, r.assembly, r.readme)
                                  ELSE api_generated
              /\ api_dir' = (api_dir \/ r.opened)
              /\ written' = IF r.opened
                            THEN [written EXCEPT !.generated =
                                    (r.assembly :> api_generated'[r.assembly]) @@ @]
                            ELSE written
              /\ IF r.ok
                 THEN UNCHANGED <<pc, exit_status>>
                 ELSE pc' = "done" /\ exit_status' = 1
         ELSE /\ results' = Append(results, "skipped")
              /\ UNCHANGED <<low_quality_count, success_count, api_generated, written,
                             api_dir, pc, exit_status>>
    /\ file_idx' = file_idx + 1
    /\ UNCHANGED <<xml_files, api_versions, api_index, api_versions_md>>
    /\ UNCHANGED <<script, runs, prev>>
    /\ UNCHANGED <<envVars, prefixVars, fileVars, qualityVars, validatorVars>>

\* generate-api-simple.py main, lines 204-227: one iteration of the loop
SimpleProcessFile ==
    /\ script = "simple" /\ pc = "loop" /\ file_idx <= Len(xml_files)
    /\ \E f \in {xml_files[file_idx]} : \E r \in {create_assembly_docs(f)} :
         IF f.exists
         THEN /\ low_quality_count' = low_quality_count + IF LowQuality(f) THEN 1 ELSE 0
              /\ success_count' = success_count + IF r.ok THEN 1 ELSE 0
              /\ results' = Append(results, IF r.ok THEN "True" ELSE "False")
              /\ api_generated' = IF r.opened
                                  THEN WriteReadme(api_generated, r.assembly, r.readme)
                                  ELSE api_generated
              /\ api_dir' = (api_dir \/ r.opened)
              /\ written' = IF r.opened
                            THEN [written EXCEPT !.generated =
                                    (r.assembly :> api_generated'[r.assembly]) @@ @]
                            ELSE written
         ELSE /\ results' = Append(results, "skipped")
              /\ UNCHANGED <<low_quality_count, success_count, api_generated, written,
                             api_dir>>
    /\ file_idx' = file_idx + 1
    /\ UNCHANGED <<xml_files, api_versions, api_index, api_versions_md>>
    /\ UNCHANGED <<script, pc, exit_status, runs, prev>>
    /\ UNCHANGED <<envVars, prefixVars, fileVars, qualityVars, validatorVars>>

\* generate-api-simple.py main, lines 229-280: after the loop.  Where the
\* status is 0 a file was rendered, so line 26 has made api/ and the open of
\* line 243 finds it
SimpleFinish ==
    /\ script = "simple" /\ pc = "loop" /\ file_idx > Len(xml_files)
    /\ pc' = "done"
    /\ exit_status' = SimpleExitStatus(low_quality_count, success_count)
    /\ IF SimpleExitStatus(low_quality_count, success_count) = 0
       THEN /\ api_index' = Written(WriteFile(api_index.lines,
                                              SimpleIndex(DOMAIN api_generated)))
            /\ written' = [written EXCEPT !.index = api_index']
       ELSE UNCHANGED <<api_index, written>>
    /\ UNCHANGED <<api_generated, api_versions, api_versions_md, api_dir>>
    /\ UNCHANGED <<script, runs, prev>>
    /\ UNCHANGED <<envVars, loopVars, prefixVars, fileVars, qualityVars, validatorVars>>

\* generate-versioned-api-docs.py main, lines 342-372
VersionedStart ==
    /\ Begin("versioned")
    /\ \E globbed \in Perms(artifacts), existing \in Perms(existing_xml) :
         xml_files' = VersionedSelect(globbed, existing)
    /\ pc' = "loop" /\ exit_status' = 0
    /\ written' = NothingWritten
    /\ UNCHANGED <<envVars, treeVars, prefixVars, fileVars, qualityVars, validatorVars>>

\* generate-versioned-api-docs.py main, lines 375-377: one iteration of the loop
VersionedProcessFile ==
    /\ script = "versioned" /\ pc = "loop" /\ file_idx <= Len(xml_files)
    /\ \E r \in {process_xml_file(xml_files[file_idx], Version)} :
         /\ success_count' = success_count + IF r.ok THEN 1 ELSE 0
         /\ results' = Append(results, IF r.ok THEN "True" ELSE "False")
         /\ api_versions' = IF r.opened
                            THEN WriteReadme(api_versions, r.assembly, r.readme)
                            ELSE api_versions
         /\ api_dir' = (api_dir \/ r.opened)
         /\ written' = IF r.opened
                       THEN [written EXCEPT !.versions =
                               (r.assembly :> api_versions'[r.assembly]) @@ @]
                       ELSE written
    /\ file_idx' = file_idx + 1
    /\ UNCHANGED <<xml_files, low_quality_count, api_generated, api_index, api_versions_md>>
    /\ UNCHANGED <<script, pc, exit_status, runs, prev>>
    /\ UNCHANGED <<envVars, prefixVars, fileVars, qualityVars, validatorVars>>

\* generate-versioned-api-docs.py main, lines 379-427: after the loop.
\* generate_version_index opens api/versions.md (line 315) without making
\* api/: where the directory is missing the open raises, nothing catches it
\* and the script ends with status 1 before line 381
VersionedFinish ==
    /\ script = "versioned" /\ pc = "loop" /\ file_idx > Len(xml_files)
    /\ pc' = "done"
    /\ IF api_dir
       THEN /\ exit_status' = 0
            /\ \E versions \in {VersionList(get_github_releases(releases), Version)} :
                 /\ api_versions_md' =
                        Written(WriteFile(api_versions_md.lines,
                                          generate_version_index(versions, Version)))
                 /\ api_index' =
                        IF DOMAIN api_generated # {}
                        THEN Written(WriteFile(api_index.lines,
                                               VersionedIndex(versions, Version,
                                                              DOMAIN api_generated)))
                        ELSE api_index
            /\ written' = [written EXCEPT !.versions_md = api_versions_md',
                                          !.index = IF DOMAIN api_generated # {}
                                                    THEN api_index' ELSE @]
       ELSE /\ exit_status' = 1
            /\ UNCHANGED <<api_versions_md, api_index, written>>
    /\ UNCHANGED <<api_generated, api_versions, api_dir>>
    /\ UNCHANGED <<script, runs, prev>>
    /\ UNCHANGED <<envVars, loopVars, prefixVars, fileVars, qualityVars, validatorVars>>

\* create-fallback-api.py: create_fallback_api
RunFallback ==
    /\ Begin("fallback")
    /\ xml_files' = <<>>
    /\ pc' = "done" /\ exit_status' = 0
    /\ api_generated' = FallbackWrite(api_generated, 1)
    /\ api_dir' = TRUE
    /\ api_index' = Written(WriteFile(api_index.lines, FallbackIndex))
    /\ written' = [NothingWritten EXCEPT
                     !.generated = [d \in {FallbackAssemblies[i][1] :
                                             i \in 1..Len(FallbackAssemblies)} |->
                                      api_generated'[d]],
                     !.index = api_index']
    /\ UNCHANGED <<api_versions, api_versions_md>>
    /\ UNCHANGED <<envVars, prefixVars, fileVars, qualityVars, validatorVars>>

NextMain ==
    \/ SimpleStart \/ SimpleProcessFile \/ SimpleFinish
    \/ VersionedStart \/ VersionedProcessFile \/ VersionedFinish
    \/ RunFallback

SpecMain == InitMain /\ [][NextMain]_vars

\* ------------------------------------------------------------------------
\* Claims about the runs
\* ------------------------------------------------------------------------
FileIndexes == 1..Len(xml_files)
\* not well-formed XML, or no assembly/name under the root
Rejected(f) == ~f.wellFormed \/ f.assembly = None
\* two T: members of one name whose summaries differ
DeclaresTypeTwice(f) ==
    \E i, j \in 1..Len(f.members) :
        /\ i < j
        /\ StartsWith(NameAttr(f.members[i]), TypeTag)
        /\ NameAttr(f.members[i]) = NameAttr(f.members[j])
        /\ f.members[i].summary # f.members[j].summary
\* the file parses and the running script renders it to the end
RendersCleanly(f) ==
    ~Rejected(f) /\ (script = "versioned" => ~DeclaresTypeTwice(f))
\* the per-file function is called on the file
Handed(f) == script = "versioned" \/ f.exists
LoopRan == script \in {"simple", "versioned"} /\ pc = "done" /\ xml_files # <<>>

\* C4: in the loop of either generator a file that is not well-formed XML or
\* lacks assembly/name makes the per-file function return False and leaves
\* the success counter alone; the loop goes on through every later file, and
\* at the end the success count is the number of files that parsed and
\* rendered without error.
C4_FailedFileDoesNotStopLoop ==
    /\ script \in {"simple", "versioned"} =>
         /\ Len(results) = file_idx - 1
         /\ success_count =
              Cardinality({i \in 1..Len(results) : RendersCleanly(xml_files[i])})
         /\ \A i \in 1..Len(results) :
              Rejected(xml_files[i]) /\ Handed(xml_files[i]) => results[i] = "False"
    /\ LoopRan =>
         /\ Len(results) = Len(xml_files)
         /\ \A i \in FileIndexes :
              RendersCleanly(xml_files[i]) => results[i] = "True"

\* a rejected file came first and the file after it was rendered and counted
C4_Witness ==
    /\ LoopRan
    /\ Len(xml_files) = 2
    /\ Rejected(xml_files[1]) /\ xml_files[1].exists
    /\ results = <<"False", "True">>
    /\ success_count = 1

\* one line of the page holds the marker text
FallbackMarker ==
    <<"F", "a", "l", "l", "b", "a", "c", "k", " ", "d", "o", "c",
      "u", "m", "e", "n", "t", "a", "t", "i", "o", "n">>
IsFallbackPage(lines) == \E i \in 1..Len(lines) : ContainsSub(lines[i].text, FallbackMarker)

\* C6: two runs of a generator over the same set of input files write the
\* same content for every assembly and for the index, whatever the order of
\* enumeration and whatever an earlier run left behind.
C6_SameInputSameOutput ==
    ( /\ pc = "done" /\ script \in {"simple", "versioned"}
      /\ prev.script = script
      /\ {prev.files[i] : i \in 1..Len(prev.files)} = {xml_files[i] : i \in FileIndexes}
      /\ exit_status = 0 /\ prev.exit_status = 0 )
    => written = prev.written

\* C9: the strict generator ends with status 1, writing neither api/index.md
\* nor a fallback page, exactly when no file is left after filtering, or a
\* processed file is of insufficient quality, or no file was processed
\* successfully; otherwise it writes api/index.md and ends with status 0.
C9_StrictExit ==
    (script = "simple" /\ pc = "done") =>
        LET Processed == {i \in FileIndexes : xml_files[i].exists}
            Blocked ==
                \/ xml_files = <<>>
                \/ \E i \in Processed : /\ xml_files[i].wellFormed
                                        /\ InsufficientQuality(xml_files[i].members)
                \/ \A i \in Processed : Rejected(xml_files[i])
        IN  IF Blocked
            THEN /\ exit_status = 1
                 /\ ~written.index.exists
                 /\ \A d \in DOMAIN written.generated :
                      ~IsFallbackPage(written.generated[d])
            ELSE /\ exit_status = 0
                 /\ written.index.exists
                 /\ api_index = written.index

\* a run blocked by one file of insufficient quality although another file
\* was rendered
C9_Witness ==
    /\ script = "simple" /\ pc = "done"
    /\ exit_status = 1
    /\ success_count = 2 /\ low_quality_count = 1
    /\ ~written.index.exists

\* C10: the fallback generator writes exactly three assembly directories,
\* Belay.Core, Belay.Attributes and Belay.Sync, each with a README.md holding
\* the text "Fallback documentation"; with no matching input file these are
\* the only directories of api/generated.
C10_FallbackPages ==
    (script = "fallback" /\ pc = "done") =>
        /\ DOMAIN written.generated = {BelayCore, BelayAttributes, BelaySync}
        /\ Cardinality(DOMAIN written.generated) = 3
        /\ \A d \in DOMAIN written.generated :
             /\ d \in DOMAIN api_generated
             /\ api_generated[d] = written.generated[d]
             /\ IsFallbackPage(api_generated[d])
        /\ (\A f \in artifacts : ~NotInRefDir(f)) =>
             DOMAIN api_generated = {BelayCore, BelayAttributes, BelaySync}

\* the strict generator found no file, then the fallback generator ran
C10_Witness ==
    /\ script = "fallback" /\ pc = "done"
    /\ prev.script = "simple" /\ prev.files = <<>> /\ prev.exit_status = 1
    /\ Cardinality(DOMAIN api_generated) = 3

\* ------------------------------------------------------------------------
\* The quality check of one file
\* ------------------------------------------------------------------------
Rep(c, n) == [i \in 1..n |-> c]
\* a file of total members, the first documented of them with a summary
\* whose trimmed text is longer than 20 characters; the others have no
\* summary, an empty one, 20 characters, 20 characters in white space, or
\* white space alone
QualityMembers(total, documented) ==
    LET substantial == <<Rep("x", 21), <<" ">> \o Rep("x", 21) \o <<"\n">>>>
        thin == <<NoElement, None, Rep("x", 20),
                  <<" ", " ">> \o Rep("x", 20) \o <<" ">>, Rep(" ", 25)>>
    IN  [i \in 1..total |->
            Member(TypeTag \o N_A,
                   IF i <= documented
                   THEN substantial[(i % 2) + 1]
                   ELSE thin[(i % 5) + 1])]

InitQuality ==
    /\ \E total \in 0..MaxQualityMembers : \E documented \in 0..total :
         /\ quality_members = QualityMembers(total, documented)
         /\ quality_documented = documented
    /\ quality_verdict = "unchecked"
    /\ PrefixIdle /\ FileIdle /\ MainIdle /\ ValidatorIdle

\* generate-api-simple.py main, lines 207-221
CheckQuality ==
    /\ quality_verdict = "unchecked"
    /\ quality_verdict' = IF InsufficientQuality(quality_members) THEN "low" ELSE "ok"
    /\ UNCHANGED <<quality_members, quality_documented, prefixVars, fileVars, mainVars,
                 validatorVars>>

SpecQuality == InitQuality /\ [][CheckQuality]_vars

\* C8: for a file of total members, documented of them with a summary whose
\* trimmed text is longer than 20 characters, the insufficient-quality
\* condition triggers exactly when total > 0 and documented/total < 0.30: it
\* triggers at 29 of 100, not at 30 of 100, and never for zero members.
C8_QualityThreshold ==
    quality_verdict # "unchecked" =>
        LET total == Len(quality_members) IN
        /\ quality_verdict = "low" <=>
             (total > 0 /\ 100 * quality_documented < 30 * total)
        /\ (total = 100 /\ quality_documented = 29) => quality_verdict = "low"
        /\ (total = 100 /\ quality_documented = 30) => quality_verdict = "ok"
        /\ total = 0 => quality_verdict = "ok"

\* 29 substantial summaries among 100 members: the condition triggered
C8_Witness ==
    /\ quality_verdict = "low"
    /\ Len(quality_members) = 100
    /\ quality_documented = 29

\* ------------------------------------------------------------------------
\* One run of the deployment validator over a build-output directory
\* ------------------------------------------------------------------------
InitValidator ==
    /\ dist \in {NoDist}
          \cup {[exists |-> TRUE, files |-> f, api_generated |-> FALSE,
                 readmes |-> NoReadmes, asset_files |-> n] :
                  f \in DistFiles, n \in {0, 2}}
          \cup {[exists |-> TRUE, files |-> f, api_generated |-> TRUE,
                 readmes |-> r, asset_files |-> 2] :
                  f \in DistFiles, r \in DistReadmes}
    /\ validator = NewValidator
    /\ validator_pc = "new"
    /\ exit_code = -1
    /\ PrefixIdle /\ FileIdle /\ QualityIdle /\ MainIdle

notValidatorVars == <<prefixVars, fileVars, qualityVars, mainVars>>

\* the error is logged and the checks run all the same
StartValidation_NoEarlyReturn ==
    /\ validator_pc = "new"
    /\ validator' = IF ~dist.exists
                    THEN log_error(validator,
                                   Msg("Build output directory not found", "", 0))
                    ELSE validator
    /\ validator_pc' = "critical"
    /\ UNCHANGED <<dist, exit_code, notValidatorVars>>

\* run_validation, lines 216-220
StartValidation ==
    /\ validator_pc = "new"
    /\ IF ~dist.exists
       THEN /\ validator' = log_error(validator,
                                      Msg("Build output directory not found", "", 0))
            /\ exit_code' = generate_report(validator')
            /\ validator_pc' = "done"
       ELSE /\ validator_pc' = "critical"
            /\ UNCHANGED <<validator, exit_code>>
    /\ UNCHANGED <<dist, notValidatorVars>>

\* run_validation, line 223
ValidateCriticalFiles ==
    /\ validator_pc = "critical"
    /\ validator' = validate_critical_files(validator, dist, 1)
    /\ validator_pc' = "api"
    /\ UNCHANGED <<dist, exit_code, notValidatorVars>>

\* run_validation, line 224
ValidateApiDocumentation ==
    /\ validator_pc = "api"
    /\ validator' = validate_api_documentation(validator, dist)
    /\ validator_pc' = "navigation"
    /\ UNCHANGED <<dist, exit_code, notValidatorVars>>

\* run_validation, line 225
ValidateNavigationIntegrity ==
    /\ validator_pc = "navigation"
    /\ validator' = validate_navigation_integrity(validator, dist)
    /\ validator_pc' = "assets"
    /\ UNCHANGED <<dist, exit_code, notValidatorVars>>

\* run_validation, line 226
ValidateAssetsAndResources ==
    /\ validator_pc = "assets"
    /\ validator' = validate_assets_and_resources(validator, dist)
    /\ validator_pc' = "quality"
    /\ UNCHANGED <<dist, exit_code, notValidatorVars>>

\* run_validation, line 227
ValidateContentQuality ==
    /\ validator_pc = "quality"
    /\ validator' = validate_content_quality(validator, dist, 1)
    /\ validator_pc' = "report"
    /\ UNCHANGED <<dist, exit_code, notValidatorVars>>

\* run_validation, line 229, and main, lines 236-238
GenerateReport ==
    /\ validator_pc = "report"
    /\ exit_code' = generate_report(validator)
    /\ validator_pc' = "done"
    /\ UNCHANGED <<dist, validator, notValidatorVars>>

NextValidator ==
    \/ StartValidation \/ ValidateCriticalFiles \/ ValidateApiDocumentation
    \/ ValidateNavigationIntegrity \/ ValidateAssetsAndResources
    \/ ValidateContentQuality \/ GenerateReport

SpecValidator == InitValidator /\ [][NextValidator]_vars

Validated == validator_pc = "done"
ErrorWordings ==
    {"Build output directory not found", "Critical file missing",
     "API documentation directory not found",
     "Cannot validate navigation: index.html missing"}
MissingCritical == {i \in 1..Len(CriticalFiles) : ~dist.files[CriticalFiles[i]].exists}
AnyFallbackMarker ==
    \/ \E p \in DOMAIN dist.files : dist.files[p].fallback
    \/ \E a \in DOMAIN dist.readmes : dist.readmes[a].fallback

\* C11: run_validation returns 1 exactly when at least one error was logged;
\* warnings alone give 0, and a warning is never filed under the errors: the
\* errors are the missing critical files, a missing api/generated, a missing
\* index.html for the navigation check, or the missing directory itself.
C11_ExitReflectsErrors ==
    /\ \A i \in 1..Len(validator.errors) : validator.errors[i].kind \in ErrorWordings
    /\ \A i \in 1..Len(validator.warnings) :
         validator.warnings[i].kind \notin ErrorWordings
    /\ Validated =>
         /\ exit_code = (IF Len(validator.errors) >= 1 THEN 1 ELSE 0)
         /\ Len(validator.errors) =
              IF ~dist.exists THEN 1
              ELSE Cardinality(MissingCritical)
                   + (IF dist.api_generated THEN 0 ELSE 1)
                   + (IF dist.files["index.html"].exists THEN 0 ELSE 1)

\* three warnings or more, no error, status 0
C11_Witness ==
    /\ Validated
    /\ Len(validator.warnings) >= 3
    /\ validator.errors = <<>>
    /\ exit_code = 0

\* C12: for an existing build-output directory in which one of the five
\* critical pages is missing, the validator logs an error naming that page
\* and returns a non-zero status, whatever else the directory holds.
C12_MissingCriticalPage ==
    (Validated /\ dist.exists) =>
        \A i \in MissingCritical :
            /\ \E k \in 1..Len(validator.errors) :
                 validator.errors[k] = Msg("Critical file missing", CriticalFiles[i], 0)
            /\ exit_code # 0

\* index.html alone is missing from a directory that is otherwise complete
C12_Witness ==
    /\ Validated /\ dist.exists /\ dist.api_generated
    /\ MissingCritical = {1}
    /\ \A a \in DOMAIN dist.readmes : dist.readmes[a] = Plain
    /\ exit_code = 1

\* C13 as stated: with all five critical pages present and no fallback
\* marker in any page, the validator logs no error and returns 0.
C13_CompleteSiteNoErrors ==
    (Validated /\ dist.exists /\ MissingCritical = {} /\ ~AnyFallbackMarker) =>
        (validator.errors = <<>> /\ exit_code = 0)

\* C13 amended: with all five critical pages present, the directory
\* api/generated present and no fallback marker in any page, the validator
\* logs no error and returns 0.
C13_CompleteSiteWithApiNoErrors ==
    (Validated /\ dist.exists /\ MissingCritical = {} /\ dist.api_generated
       /\ ~AnyFallbackMarker) =>
        (validator.errors = <<>> /\ exit_code = 0)

\* a complete site without marker, an assembly page missing and a page that
\* cannot be read: warnings only
C13_Witness ==
    /\ Validated /\ dist.exists /\ MissingCritical = {} /\ dist.api_generated
    /\ ~AnyFallbackMarker
    /\ ~dist.readmes["Belay.Sync"].exists
    /\ ~dist.files["index.html"].readable
    /\ Len(validator.warnings) >= 2
    /\ exit_code = 0

\* ---- C14: empty remarks and returns leave no section ----

NoRemarks == \A i \in Positions : ElemText(xml_file.members[i].remarks) = <<>>
NoReturns == \A i \in Positions : ElemText(xml_file.members[i].returns) = <<>>

\* C14: the text extractor gives the placeholder for a missing or empty
\* summary only; a missing or empty remarks or returns text is the empty
\* string, so a README made from members without remarks has no Remarks
\* section and one made from members without returns has no Returns line.
C14_PlaceholderForSummaryOnly ==
    (simple_out.done /\ simple_out.res.ok) =>
          /\ NoRemarks => LinesOf(simple_out.res.readme, {"remarks"}) = {}
          /\ NoReturns => LinesOf(simple_out.res.readme, {"returns"}) = {}

\* ========================================================================
\* SpecText: one XML file whose elements carry text with angle brackets
\* ========================================================================
MaxTextLen == 3

TextChars == {"<", ">", "a", " "}
Texts == UNION {[1..n -> TextChars] : n \in 0..MaxTextLen}

\* a member whose summary, remarks or returns element (the one named by
\* [where]) holds [text]; the other two elements are missing
TextMember(name, where, text) ==
    [name |-> name,
     summary |-> IF where = "summary" THEN text ELSE NoElement,
     remarks |-> IF where = "remarks" THEN text ELSE NoElement,
     returns |-> IF where = "returns" THEN text ELSE NoElement,
     examples |-> <<>>]

InitText ==
    /\ \E text \in Texts, where \in {"summary", "remarks", "returns"} :
          xml_file = XmlFile(TRUE, TRUE, AssemblyA,
                        <<TextMember(TypeTag \o N_A, where, text),
                          TextMember(MethodTag \o N_A \o <<".", "M">>, where, text)>>)
    /\ simple_out = NotRun
    /\ versioned_out = NotRun
    /\ PrefixIdle /\ QualityIdle /\ MainIdle /\ ValidatorIdle

SpecText == InitText /\ [][NextFile]_vars

\* ---- C15: no raw angle bracket in extracted text ----

TextKinds == {"p", "remarks", "returns"}
NoRawAngle(readme) ==
    \A i \in LinesOf(readme, TextKinds) :
        ~Contains(readme[i].text, "<") /\ ~Contains(readme[i].text, ">")

\* C15: in the README of either generator, no line made from the text of a
\* summary, remarks or returns element holds a raw '<' or '>'.
C15_NoRawAngleBracket ==
    /\ (simple_out.done /\ simple_out.res.ok) => NoRawAngle(simple_out.res.readme)
    /\ (versioned_out.done /\ versioned_out.res.ok) =>
          NoRawAngle(versioned_out.res.readme)

\* ---- C16: each successfully processed file owns its README ----

ReadmesWritten ==
    IF script = "simple" THEN DOMAIN written.generated ELSE DOMAIN written.versions
\* the per-file function opens <assembly>/README.md for the file
WritesReadme(f) == Handed(f) /\ ~Rejected(f)

\* C16: after the loop of either generator the number of distinct README.md
\* files written is the number of files processed successfully, and no two
\* files of the run wrote the same README.md.
C16_OneReadmePerFile ==
    LoopRan =>
        /\ Cardinality(ReadmesWritten) = success_count
        /\ \A i, j \in FileIndexes :
              (i < j /\ WritesReadme(xml_files[i]) /\ WritesReadme(xml_files[j]))
                 => xml_files[i].assembly # xml_files[j].assembly

\* ---- C17: the version list always holds the current version ----

IsVersionLine(l) == l.kind \in {"current", "released"}
\* the versions api/versions.md lists, in the order it lists them
ListedVersions ==
    LET ls == SelectSeq(api_versions_md.lines, IsVersionLine)
    IN  [i \in 1..Len(ls) |-> ls[i].text]
\* the tags of what get_github_releases returned
FetchedTags ==
    LET rs == get_github_releases(releases)
    IN  [i \in 1..Len(rs) |-> rs[i].tag_name]
VersionedDone == script = "versioned" /\ pc = "done"
\* the list main hands to generate_version_index at line 380
HandedVersions == VersionList(get_github_releases(releases), Version)
\* generate_version_index wrote api/versions.md in the run just ended
IndexWritten == VersionedDone /\ exit_status = 0

MaxListed == 3

OrderPool ==
    { Member(MethodTag \o N_A \o <<".", "B">>, ShortSummary),
      Member(MethodTag \o N_A \o <<".", "C">>, ShortSummary),
      Member(MethodTag \o N_A \o <<".", "M">>, ShortSummary),
      Member(PropertyTag \o N_A \o <<".", "E">>, ShortSummary),
      Member(PropertyTag \o N_A \o <<".", "P">>, ShortSummary),
      Member(FieldTag \o N_A \o <<".", "F">>, ShortSummary),
      Member(FieldTag \o N_A \o <<".", "S">>, ShortSummary) }

MaxExamples == 3

LongExample ==
    Example(<<"C", "a", "l", "l", " ", "O", "p", "e", "n", " ", "f", "i", "r", "s", "t">>,
            <<>>)
CodeExample ==
    Example(<<>>,
            <<<<"v", "a", "r", " ", "x", " ", "=", " ", "O", "p", "e", "n", "(", ")", ";">>>>)
ShortExample == Example(<<"s", "e", "e", " ", "d", "o", "c", "s">>, <<>>)
ExampleLists ==
    {[i \in 1..n |-> IF i % 2 = 1 THEN LongExample ELSE CodeExample] :
        n \in 0..MaxExamples} \cup {<<ShortExample>>}

InitOrder ==
    /\ \E ms \in UNION {[1..n -> OrderPool] : n \in 0..MaxListed},
          examples \in ExampleLists,
          others \in {<<>>, <<Member(TypeTag \o N_B, ShortSummary)>>} :
          xml_file = XmlFile(TRUE, TRUE, AssemblyA,
                             <<[Member(TypeTag \o N_A, ShortSummary)
                                   EXCEPT !.examples = examples]>> \o others \o ms)
    /\ simple_out = NotRun
    /\ versioned_out = NotRun
    /\ PrefixIdle /\ QualityIdle /\ MainIdle /\ ValidatorIdle

SpecOrder == InitOrder /\ [][NextFile]_vars

\* ---- C18: members of one kind appear in lexical order ----

\* the member lines between two headings are in ascending order
InOrder(readme, member_kind, heading_kinds) ==
    \A i, j \in LinesOf(readme, {member_kind}) :
        (i < j /\ LinesOf(readme, heading_kinds) \cap (i..j) = {})
            => ~StrLess(readme[j].text, readme[i].text)

\* C18: in every type section of either generator's README the methods, the
\* properties and the fields each appear in ascending lexical order of their
\* short names, whatever their order in the XML file.
C18_MembersInLexicalOrder ==
    /\ (simple_out.done /\ simple_out.res.ok) =>
          InOrder(simple_out.res.readme, "h4", {"h2", "h3"})
    /\ (versioned_out.done /\ versioned_out.res.ok) =>
          InOrder(versioned_out.res.readme, "b", {"h3", "h4"})

\* ========================================================================
\* SpecDisplay: one type and one method, over the shapes a method name takes
\* ========================================================================
MaxArity == 2

\* ``1, ``2: the suffix of a method with that many generic parameters
ArityMarker(n) ==
    IF n = 0 THEN <<>>
    ELSE <<"BACKTICK", "BACKTICK">> \o <<(<<"1", "2", "3">>)[n]>>

MethodNames ==
    { N_A \o <<".">> \o iface \o short \o ArityMarker(n) \o params :
        iface \in {<<>>, <<"I", "#">>},
        short \in {<<"M">>, <<"B">>},
        n \in 0..MaxArity,
        params \in {<<>>, <<"(", "B", ")">>, <<"(", "N", ".", "B", ")">>,
                    <<"(", "C", "{", "N", ".", "B", "}", ")">>} }

InitDisplay ==
    /\ \E name \in MethodNames :
          xml_file = XmlFile(TRUE, TRUE, AssemblyA,
                             <<Member(TypeTag \o N_A, ShortSummary),
                               Member(MethodTag \o name, ShortSummary)>>)
    /\ simple_out = NotRun
    /\ versioned_out = NotRun
    /\ PrefixIdle /\ QualityIdle /\ MainIdle /\ ValidatorIdle

SpecDisplay == InitDisplay /\ [][NextFile]_vars

\* the qualified name of the one method of the file
TheMethod == Drop(NameAttr(xml_file.members[2]), 2)
\* the display names either README shows for it
SimpleDisplays ==
    IF simple_out.done /\ simple_out.res.ok
    THEN {simple_out.res.readme[i].text : i \in LinesOf(simple_out.res.readme, {"h4"})}
    ELSE {}
VersionedDisplays ==
    IF versioned_out.done /\ versioned_out.res.ok
    THEN {versioned_out.res.readme[i].text :
             i \in LinesOf(versioned_out.res.readme, {"b"})}
    ELSE {}

\* ---- C19: the display name starts with the method's short name ----

\* the segment between the last dot before '(' and '(', without the
\* interface qualification and without the generic marker
OwnShortName(name) ==
    LET segment == SplitLast(SplitFirst(name, "("), ".")
    IN  SplitFirst(SplitLast(segment, "#"), "BACKTICK")

\* C19: the display name of a method with a parameter list starts with the
\* method's own short name, free of the owning type and of any interface
\* qualification, also when the parameter types contain dots.
C19_DisplayStartsWithShortName ==
    Contains(TheMethod, "(") =>
        \A display \in SimpleDisplays \cup VersionedDisplays :
            StartsWith(display, OwnShortName(TheMethod))

\* ---- C20: generic markers replaced, brackets and braces escaped ----

\* some c in s is not preceded by a backslash
Unescaped(s, c) ==
    \E i \in 1..Len(s) : s[i] = c /\ (i = 1 \/ s[i - 1] # "\\")
Clean(display) ==
    /\ ~Contains(display, "BACKTICK")
    /\ \A c \in {"<", ">", "{", "}"} : ~Unescaped(display, c)
\* the readable token of the generic marker of the name, escaped
ArityToken(name) ==
    IF ContainsSub(name, ArityMarker(1)) THEN <<"\\", "<", "T", "\\", ">">>
    ELSE IF ContainsSub(name, ArityMarker(2))
         THEN <<"\\", "<", "T", ",", "U", "\\", ">">>
         ELSE <<>>

\* C20: the display name of every rendered method, with or without a
\* parameter list, shows the readable token in place of the generic marker
\* of its name and holds no raw marker and no unescaped '<', '>', '{', '}'.
C20_MarkerReplacedAndEscaped ==
    \A display \in SimpleDisplays \cup VersionedDisplays :
        Clean(display) /\ ContainsSub(display, ArityToken(TheMethod))

\* ---- C26: a missing build-output directory ----

\* C26: when the build-output directory does not exist, run_validation logs
\* exactly one error, runs none of the five checks (no warning is logged, no
\* statistic is counted), and returns 1.
C26_MissingDirectory ==
    ~dist.exists =>
        /\ validator_pc \in {"new", "done"}
        /\ validator.warnings = <<>>
        /\ validator.stats = NewValidator.stats
        /\ Validated =>
              /\ Len(validator.errors) = 1
              /\ validator.errors[1].kind = "Build output directory not found"
              /\ exit_code = 1

C26_Witness ==
    /\ Validated /\ ~dist.exists
    /\ Len(validator.errors) = 1 /\ exit_code = 1

\* ---- C21: subsections follow the attached members ----

\* the lines of the type section that starts at heading line h
Section(readme, h) ==
    {i \in h..Len(readme) : \A k \in h..(i - 1) : readme[k].kind # "hr"}
HasSubsection(readme, h, kind, letter) ==
    \E i \in Section(readme, h) : readme[i].kind = kind /\ readme[i].text = <<letter>>
ExamplesIn(readme, h) == {i \in Section(readme, h) : readme[i].kind = "example"}
\* the members of the file with the given tag whose type prefix is the type
AttachedTo(type_name, tag) ==
    {i \in Positions : /\ HasTag(xml_file.members[i], tag)
                       /\ VersionedComputedPrefix(xml_file.members[i]) = type_name}
KindLetters == {<<MethodTag, "M">>, <<PropertyTag, "P">>, <<FieldTag, "F">>}

\* C21: in every type section of either README each of the Methods,
\* Properties and Fields subsections is present exactly when a member of
\* that kind is attached to the type, and at most 2 examples are rendered.
C21_SubsectionsFollowMembers ==
    /\ (simple_out.done /\ simple_out.res.ok) =>
          LET readme == simple_out.res.readme
          IN  \A h \in LinesOf(readme, {"h2"}) :
                 /\ \A kl \in KindLetters :
                       HasSubsection(readme, h, "h3", kl[2])
                          <=> AttachedTo(readme[h].text, kl[1]) # {}
                 /\ Cardinality(ExamplesIn(readme, h)) <= ExampleLimit
    /\ (versioned_out.done /\ versioned_out.res.ok) =>
          LET readme == versioned_out.res.readme
          IN  \A h \in LinesOf(readme, {"h3"}) :
                 /\ \A kl \in KindLetters :
                       HasSubsection(readme, h, "h4", kl[2])
                          <=> AttachedTo(readme[h].text, kl[1]) # {}
                 /\ Cardinality(ExamplesIn(readme, h)) <= ExampleLimit

\* ========================================================================
\* SpecCap: one XML file with many types
\* ========================================================================
MaxTypes == 17

TypeLetters ==
    <<"A", "B", "C", "E", "F", "I", "M", "N", "P", "S", "T",
      "a", "b", "c", "d", "e", "g", "i", "l", "n">>
\* the declaration of the k-th type name, counted from [first] round the
\* letters
TypeMember(first, k) ==
    Member(TypeTag \o <<"N", ".", TypeLetters[((first + k - 2) % Len(TypeLetters)) + 1]>>,
           ShortSummary)

InitCap ==
    /\ \E n \in 0..MaxTypes, first \in {1, 5, 12}, again \in 0..2 :
          xml_file = XmlFile(TRUE, TRUE, AssemblyA,
                        [k \in 1..n |-> TypeMember(first, k)]
                        \o [k \in 1..(IF n = 0 THEN 0 ELSE again) |-> TypeMember(first, 1)])
    /\ simple_out = NotRun
    /\ versioned_out = NotRun
    /\ PrefixIdle /\ QualityIdle /\ MainIdle /\ ValidatorIdle

SpecCap == InitCap /\ [][NextFile]_vars

\* ---- C22: the first 15 types, and the number announced ----

IsTypeHeading(l) == l.kind = "h2"
\* the names of the type sections of the README, in order
SectionNames(readme) ==
    LET hs == SelectSeq(readme, IsTypeHeading) IN [i \in 1..Len(hs) |-> hs[i].text]
\* the names of the T: members of the file in file order, each once
RECURSIVE DistinctInOrder(_)
DistinctInOrder(names) ==
    IF names = <<>> THEN <<>>
    ELSE LET front == DistinctInOrder(SubSeq(names, 1, Len(names) - 1))
             last == names[Len(names)]
         IN  IF \E i \in 1..Len(front) : front[i] = last THEN front
             ELSE Append(front, last)
DeclaredTypes ==
    LET ts == SelectSeq(xml_file.members, LAMBDA m : HasTag(m, TypeTag))
    IN  DistinctInOrder([i \in 1..Len(ts) |-> Drop(NameAttr(ts[i]), 2)])
Announced(readme) ==
    (CHOOSE i \in 1..Len(readme) : readme[i].kind = "overview")

\* C22 as stated: the type sections of the single-pass README are the first
\* 15 distinct type names of the file in file order, all of them when there
\* are fewer, and the number of types the Overview announces is the number
\* of type sections.
C22_FirstTypesAndCount ==
    (simple_out.done /\ simple_out.res.ok) =>
        LET readme == simple_out.res.readme
        IN  /\ SectionNames(readme) = Take(DeclaredTypes, TypeLimit)
            /\ readme[Announced(readme)].n = Len(SectionNames(readme))

\* C22 amended: the type sections are the first 15 distinct type names of
\* the file in file order, all of them when there are fewer, and the number
\* the Overview announces is the number of distinct type names of the file:
\* the number of type sections when there are at most 15, more otherwise.
C22_FirstTypesAndTotal ==
    (simple_out.done /\ simple_out.res.ok) =>
        LET readme == simple_out.res.readme
        IN  /\ SectionNames(readme) = Take(DeclaredTypes, TypeLimit)
            /\ readme[Announced(readme)].n = Len(DeclaredTypes)
            /\ Len(DeclaredTypes) <= TypeLimit
                  <=> readme[Announced(readme)].n = Len(SectionNames(readme))

\* a file that declares more than 15 types, one of them twice
C22_Witness ==
    /\ simple_out.done /\ simple_out.res.ok
    /\ Len(DeclaredTypes) > TypeLimit
    /\ Len(xml_file.members) > Len(DeclaredTypes)
    /\ Len(SectionNames(simple_out.res.readme)) = TypeLimit
    /\ simple_out.res.readme[Announced(simple_out.res.readme)].n = Len(DeclaredTypes)

\* ========================================================================
\* SpecLocate: the scripts over directories that hold reference assemblies
\* ========================================================================
\* a file under a directory named ref (the project directory the glob's *
\* matches), and a file with ref in its name only
RefDirFile ==
    Artifact(RefDir \o <<"f">>, XmlFile(TRUE, TRUE, <<"B">>, <<DocumentedType>>))
RefNameFile ==
    Artifact(<<"x", "r", "e", "f">>, XmlFile(TRUE, TRUE, <<"C">>, <<DocumentedType>>))

InitLocate ==
    /\ artifacts \in SUBSET {GoodFile, RefDirFile, RefNameFile}
    /\ existing_xml \in SUBSET {GoodFile, RefDirFile}
    /\ releases = FetchFailed
    /\ NoRunYet
    /\ api_dir \in BOOLEAN
    /\ PrefixIdle /\ FileIdle /\ QualityIdle /\ ValidatorIdle

SpecLocate == InitLocate /\ [][NextMain]_vars

\* ---- C23: no file with ref in its path is parsed ----

Candidates == {xml_files[i] : i \in FileIndexes}
\* the files the globs of the running script match
Matched ==
    IF script = "simple" THEN artifacts
    ELSE IF \E f \in artifacts : NotRef(f) THEN artifacts
    ELSE artifacts \cup existing_xml

\* C23: neither generator hands a file whose path contains 'ref' to its
\* per-file function, whichever glob found it, and every other matched file
\* is handed to it.
C23_NoRefFileParsed ==
    script \in {"simple", "versioned"} =>
        /\ \A f \in Candidates : NotRef(f)
        /\ \A f \in Matched : NotRef(f) => f \in Candidates

\* ---- C24: the global index of the single-pass generator ----

IsEntry(l) == l.kind = "entry"
IsFixed(l) == l.kind # "entry"
\* the assemblies api/index.md links to, in the order it lists them
IndexEntries ==
    LET es == SelectSeq(api_index.lines, IsEntry) IN [i \in 1..Len(es) |-> es[i].text]
SimpleSucceeded == script = "simple" /\ pc = "done" /\ exit_status = 0

\* C24: the index written by a successful run of the single-pass generator
\* links every assembly generated in that run once, in ascending order of
\* name, and no other assembly; the rest of its content is the same for
\* every run.
C24_IndexListsThisRun ==
    SimpleSucceeded =>
        /\ IndexEntries = [i \in 1..Cardinality(DOMAIN written.generated) |->
                              SortedNames(DOMAIN written.generated)[i]]
        /\ SelectSeq(api_index.lines, IsFixed)
              = <<Line("h1", <<>>), Line("intro", <<>>), Line("generated", <<>>),
                  Line("quickref", <<>>), Line("examples", <<>>)>>

\* ---- C25: a rejected file leaves no output ----

\* C25: whenever either per-file function returns False for a file, it has
\* not opened README.md for that file: nothing was created, truncated or
\* partly written.
C25_RejectedLeavesNoOutput ==
    /\ (simple_out.done /\ ~simple_out.res.ok) =>
          ~simple_out.res.opened /\ simple_out.res.readme = <<>>
    /\ (versioned_out.done /\ ~versioned_out.res.ok) =>
          ~versioned_out.res.opened /\ versioned_out.res.readme = <<>>

====
